---- MODULE Spec2Model ----
(***************************************************************************)
(* Function-call machinery of the scripting engine: function resolution    *)
(* with its two-tier cache (src/func/call.rs, src/eval/cache.rs), native   *)
(* and script dispatch with the first-argument backup, the scoped          *)
(* save/restore of the global runtime state, and the public call_fn entry  *)
(* point (src/api/call_fn.rs).                                             *)
(*                                                                         *)
(* Conventions.  Option<T> is a sequence of length at most one: << >> is   *)
(* None and <<x>> is Some(x).  Hashes are naturals; the 64-bit hasher is   *)
(* replaced by a collision-free positional encoding, so every statement    *)
(* checked here is under the assumption that no two hashes collide.        *)
(***************************************************************************)
EXTENDS Integers, Sequences, FiniteSets, TLC

VARIABLES
    engine,     \* the engine's function sources (fixed after construction)
    caches,     \* Caches.stack: sequence of FnResolutionCache
    sightings,  \* history: per cache, the typed hashes that missed once / twice
    last,       \* history: the last resolve_fn call, its inputs and its outcome
    global,     \* GlobalRuntimeState: level, source, embedded_module_resolver
    scope,      \* the Scope the host passes to call_fn
    frames,     \* the calls in progress, innermost last
    returned,   \* the call that has just returned: its frame, outcome, state
    panic       \* the assertion of ArgBackup's drop has failed

resolveVars == <<engine, caches, sightings, last>>
callVars == <<global, scope, frames, returned, panic>>
vars == <<engine, caches, sightings, last, global, scope, frames, returned, panic>>

----------------------------------------------------------------------------
(* Bounds of the model *)

\* Longest argument list of a call.
MaxArgs == 2
\* The longest argument list given to the data-race check.
MaxRaceArgs == 4
\* Number of resolve_fn calls in one behaviour.
MaxResolves == 3
\* Deepest stack of resolution caches.
MaxCacheStack == 2
\* Deepest nesting of calls whose callee runs arbitrary code.
MaxDepth == 4
\* Longest scope at which the host calls and a body declares a variable.
MaxScope == 2
\* The engine's configured max_call_levels.
MaxCallLevels == 6
\* Number of call expressions evaluated in one run of call_fn_raw, the
\* recursion of foo aside.
MaxCalls == 2
\* Number of modules the text given to eval imports.
MaxImports == 1

----------------------------------------------------------------------------
(* Hashing: src/func/hashing.rs *)

ALT_ZERO_HASH == 42

\* Type ids of the argument values; Dynamic is the wildcard parameter type.
TypeIds == {1, 2}
DynamicTypeId == Cardinality(TypeIds) + 1

\* The function names that calls use.
Names ==
    <<"f", "+", "g", "h", "p", "foo", "decl", "empty", "sf", "print",
      "type_of", "eval", "nofn", "imp", "action", "q", "_f1", "fa", "anon$1",
      "r", "Fn", "is_def_var", "is_shared", "call", "curry">>
NameCode(name) == CHOOSE i \in 1..Len(Names) : Names[i] = name

Max(a, b) == IF a >= b THEN a ELSE b
\* Every item fed to the hasher is below the radix.
HashRadix == Max(Max(Len(Names), DynamicTypeId), MaxArgs + 1) + 1

\* Stand-in for the state of get_hasher(): feeding the items of s in order.
RECURSIVE Hasher(_)
Hasher(s) ==
    IF s = << >> THEN 0
    ELSE Hasher(SubSeq(s, 1, Len(s) - 1)) * HashRadix + s[Len(s)]

\* The hasher hands its value back as it is.
ZeroKept(r) == r

ZeroToAlt(r) == IF r = 0 THEN ALT_ZERO_HASH ELSE r

\* finish() of the hasher that get_hasher() returns, after the items of s:
\* which function of its input the hasher computes is not known, and key
\* picks one whose value is zero for the input that Hasher maps to key.
\* Key 0 is the hasher of the calls modelled below.
AHasher(key, s) == IF Hasher(s) >= key THEN Hasher(s) - key ELSE key - Hasher(s)

\* The items fed for a namespace path: its names but the first.
SkipFirst(modules) == [i \in 1..(Len(modules) - 1) |-> NameCode(modules[i + 1])]

\* What calc_qualified_var_hash feeds: the path but its first name, the
\* length of the path, the name.
QualifiedVarItems(modules, var_name) ==
    SkipFirst(modules) \o <<Len(modules), NameCode(var_name)>>

\* What calc_qualified_fn_hash feeds: the path but its first name, the
\* length of the path, the name, the number of parameters.
QualifiedFnItems(modules, fn_name, num) ==
    SkipFirst(modules) \o <<Len(modules), NameCode(fn_name), num>>

\* What calc_fn_params_hash feeds: the type ids, then their number.
FnParamsItems(params) == params \o <<Len(params)>>

calc_qualified_var_hash_with(key, modules, var_name) ==
    ZeroToAlt(AHasher(key, QualifiedVarItems(modules, var_name)))

calc_qualified_fn_hash_with(key, modules, fn_name, num) ==
    ZeroToAlt(AHasher(key, QualifiedFnItems(modules, fn_name, num)))

calc_fn_hash_with(key, fn_name, num) ==
    calc_qualified_fn_hash_with(key, << >>, fn_name, num)

calc_fn_params_hash_with(key, params) ==
    ZeroToAlt(AHasher(key, FnParamsItems(params)))

\* The namespace path but its first name, then its length, name and num.
calc_qualified_fn_hash(modules, fn_name, num) ==
    calc_qualified_fn_hash_with(0, modules, fn_name, num)

\* calc_qualified_fn_hash with no modules.
calc_fn_hash(fn_name, num) == calc_fn_hash_with(0, fn_name, num)

\* a ^ b of two unsigned integers.
RECURSIVE Xor(_, _)
Xor(a, b) ==
    IF a = 0 THEN b
    ELSE IF b = 0 THEN a
    ELSE ((a + b) % 2) + (2 * Xor(a \div 2, b \div 2))

combine_hashes(a, b) == ZeroToAlt(Xor(a, b))

\* StraightHasherBuilder::build_hasher, StraightHasher::write_u64 and
\* StraightHasher::finish; the value is the hasher's field.
build_hasher == ALT_ZERO_HASH
write_u64(self, i) == IF i = 0 THEN ALT_ZERO_HASH ELSE i
finish(self) == self

\* Base hash extended with the ordered parameter type ids and their count.
calc_fn_hash_full(base, params) ==
    ZeroToAlt(Hasher(<<base>> \o params \o <<Len(params)>>))

----------------------------------------------------------------------------
(* Callables and the engine's function sources *)

Callable(kind, pure, tag) == [kind |-> kind, pure |-> pure, tag |-> tag]

\* CallableFunction predicates used by the dispatch code.
is_script(f) == f.kind = "script"
is_plugin_fn(f) == f.kind = "plugin"
is_native(f) == f.kind \in {"native", "plugin", "builtin"}
is_pure(f) == f.pure
is_method(f) == f.kind \in {"native", "plugin"} /\ ~f.pure

\* A module: its id, its functions by hash, and the base hashes for which it
\* holds a function with a Dynamic parameter.
Module(id, fns, dynamic) == [id |-> id, fns |-> fns, dynamic |-> dynamic]

H_f0 == calc_fn_hash("f", 0)
H_f1 == calc_fn_hash("f", 1)
H_f2 == calc_fn_hash("f", 2)

\* Script functions of the compiled program: fn f(x) { ... }
AstLib ==
    Module("ast", (H_f1 :> Callable("script", FALSE, "f/1")), {})

\* The global namespace module: f(int), registered as a pure native function.
GlobalNamespace ==
    Module("", (calc_fn_hash_full(H_f1, <<1>>) :> Callable("native", TRUE, "f(int)")), {})

\* A registered package: f(int, Dynamic), a method taking &mut first argument.
Package ==
    Module("pkg",
           (calc_fn_hash_full(H_f2, <<1, DynamicTypeId>>)
                :> Callable("plugin", FALSE, "f(int,Dynamic)")),
           {H_f2})

\* An imported module exposing f(int) to the global namespace (shadowed).
Imported ==
    Module("imp",
           (calc_fn_hash_full(H_f1, <<1>>) :> Callable("native", TRUE, "imp::f(int)")),
           {})

\* A static sub-module exposing f(Dynamic).
SubModule ==
    Module("sub",
           (calc_fn_hash_full(H_f1, <<DynamicTypeId>>)
                :> Callable("native", FALSE, "sub::f(Dynamic)")),
           {H_f1})

EngineConfig ==
    [lib |-> <<AstLib>>,
     global_modules |-> <<GlobalNamespace, Package>>,
     imports |-> <<Imported>>,
     global_sub_modules |-> <<SubModule>>]

\* Module::get_fn / get_qualified_fn over a list of modules: the first hit,
\* with the id of the module that holds it.
RECURSIVE FindFn(_, _)
FindFn(modules, hash) ==
    IF modules = << >> THEN << >>
    ELSE IF hash \in DOMAIN Head(modules).fns
         THEN <<[func |-> Head(modules).fns[hash], source |-> Head(modules).id]>>
         ELSE FindFn(Tail(modules), hash)

Reverse(s) == [i \in 1..Len(s) |-> s[Len(s) + 1 - i]]

\* GlobalRuntimeState::get_qualified_fn: imports, most recently imported first.
GlobalQualifiedFn(e, hash) == FindFn(Reverse(e.imports), hash)

may_contain_dynamic_fn(modules, hash_base) ==
    \E i \in 1..Len(modules) : hash_base \in modules[i].dynamic

\* Built-in operator tables (func/builtin.rs).
BuiltinFn(tag) == [func |-> Callable("builtin", TRUE, tag), source |-> ""]

is_op_assignment(token) == token = "PlusAssign"

get_builtin_binary_op_fn(token, x, y) ==
    IF token = "Plus" /\ x = y THEN <<BuiltinFn("builtin +")>> ELSE << >>

get_builtin_op_assignment_fn(token, x, y) ==
    IF token = "PlusAssign" /\ x = y THEN <<BuiltinFn("builtin +=")>> ELSE << >>

----------------------------------------------------------------------------
(* The resolution cache: src/eval/cache.rs *)

MAX_DYNAMIC_PARAMETERS == 16

Min(a, b) == IF a <= b THEN a ELSE b
Pow2(n) == 2 ^ n

\* FnResolutionCache::default(): no entry, no filter bit.
EmptyCache == [map |-> << >>, filter |-> {}]

\* BloomFilterU64::is_absent_and_set, the test half: the bit of hash is clear.
is_absent(filter, hash) == hash \notin filter

\* HashMap insert through the vacant entry of `key`.
MapInsert(map, key, value) ==
    [k \in DOMAIN map \cup {key} |-> IF k = key THEN value ELSE map[k]]

\* FnResolutionCache::clear
ClearedCache(cache) == [map |-> << >>, filter |-> {}]

\* Caches::fn_resolution_cache_mut: push an empty cache when the stack is empty.
fn_resolution_cache_mut(stack) == IF stack = << >> THEN <<EmptyCache>> ELSE stack

\* Caches::push_fn_resolution_cache
push_fn_resolution_cache(stack) == Append(stack, EmptyCache)

\* A rewind that empties the stack.
RewindToNothing(stack, len) == << >>

\* Caches::rewind_fn_resolution_caches: truncate
rewind_fn_resolution_caches(stack, len) == SubSeq(stack, 1, Min(len, Len(stack)))

----------------------------------------------------------------------------
(* Engine::resolve_fn: src/func/call.rs *)

\* A search that asks the static sub-modules before the imports.
SearchSubModulesFirst(e, hash, args) ==
    LET func == FindFn(e.lib \o e.global_modules, hash)
    IN  IF args = << >> THEN func
        ELSE IF func # << >> THEN func
        ELSE IF FindFn(e.global_sub_modules, hash) # << >>
        THEN FindFn(e.global_sub_modules, hash)
        ELSE GlobalQualifiedFn(e, hash)

\* The search of one probe of the loop: lib, then the global modules; with
\* arguments also the imports' qualified index, then the static sub-modules.
SearchSources(e, hash, args) ==
    LET func == FindFn(e.lib \o e.global_modules, hash)
    IN  IF args = << >> THEN func
        ELSE IF func # << >> THEN func
        ELSE IF GlobalQualifiedFn(e, hash) # << >> THEN GlobalQualifiedFn(e, hash)
        ELSE FindFn(e.global_sub_modules, hash)

\* Whether any searched source may hold a Dynamic overload for hash_base.
IsDynamic(e, hash_base) ==
    \/ may_contain_dynamic_fn(e.lib, hash_base)
    \/ may_contain_dynamic_fn(e.global_modules, hash_base)
    \/ may_contain_dynamic_fn(e.imports, hash_base)
    \/ may_contain_dynamic_fn(e.global_sub_modules, hash_base)

\* A permutation whose least significant bit stands for the first parameter.
PermutedTypesLsbFirst(types, bitmask) ==
    [i \in 1..Len(types) |->
        IF (bitmask \div (2 ^ (i - 1))) % 2 = 0
        THEN types[i] ELSE DynamicTypeId]

\* The type ids of the permutation `bitmask`: the most significant bit stands
\* for the first parameter; a set bit replaces the type by Dynamic.
PermutedTypes(types, bitmask) ==
    [i \in 1..Len(types) |->
        IF (bitmask \div Pow2(Len(types) - i)) % 2 = 0
        THEN types[i] ELSE DynamicTypeId]

\* The built-in looked up when every permutation is exhausted (two arguments).
BuiltinLookup(op_token, types) ==
    IF op_token = << >> THEN << >>
    ELSE IF is_op_assignment(op_token[1])
         THEN get_builtin_op_assignment_fn(op_token[1], types[1], types[2])
         ELSE get_builtin_binary_op_fn(op_token[1], types[1], types[2])

\* How an outcome is offered to the cache: kept in the caller's local entry
\* when the filter bit of `hash` was clear (and the bit is set), inserted under
\* the vacant entry `key` otherwise.
OfferToCache(cache, key, hash, new_entry, probes) ==
    IF is_absent(cache.filter, hash)
    THEN [ret |-> new_entry, local_entry |-> new_entry,
          cache |-> [cache EXCEPT !.filter = @ \cup {hash}],
          hit |-> FALSE, inserted |-> FALSE, filter_hash |-> <<hash>>,
          probes |-> probes]
    ELSE [ret |-> new_entry, local_entry |-> << >>,
          cache |-> [cache EXCEPT !.map = MapInsert(@, key, new_entry)],
          hit |-> FALSE, inserted |-> TRUE, filter_hash |-> <<hash>>,
          probes |-> probes]

\* Leaving resolve_fn without touching the cache.
ReturnNone(cache, probes) ==
    [ret |-> << >>, local_entry |-> << >>, cache |-> cache,
     hit |-> FALSE, inserted |-> FALSE, filter_hash |-> << >>, probes |-> probes]

\* The loop of resolve_fn on a vacant entry `key`: `hash` is the hash probed
\* in this iteration, `bitmask` the next permutation, `max_bitmask` one above
\* the last permutation (0 until the first probe has failed).
RECURSIVE ResolveLoop(_, _, _, _, _, _, _, _, _, _, _)
ResolveLoop(e, cache, key, hash_base, args, op_token, allow_dynamic, hash, bitmask, max_bitmask, probes) ==
    LET num_args == IF args = << >> THEN 0 ELSE Len(args[1])
        func == SearchSources(e, hash, args)
        new_max == IF allow_dynamic /\ max_bitmask = 0 /\ num_args > 0
                      /\ IsDynamic(e, hash_base)
                   THEN Pow2(Min(num_args, MAX_DYNAMIC_PARAMETERS))
                   ELSE max_bitmask
        probed == Append(probes, hash)
    IN  IF func # << >>
        THEN OfferToCache(cache, key, hash, func, probed)
        ELSE IF bitmask >= new_max
        THEN IF num_args # 2
             THEN ReturnNone(cache, probed)
             ELSE OfferToCache(cache, key, hash,
                               BuiltinLookup(op_token, args[1]), probed)
        ELSE ResolveLoop(e, cache, key, hash_base, args, op_token, allow_dynamic,
                         calc_fn_hash_full(hash_base,
                                           PermutedTypes(args[1], bitmask)),
                         bitmask + 1, new_max, probed)

\* The key resolve_fn looks up: the base hash without arguments, the hash
\* typed with the argument types otherwise.
TypedHash(hash_base, args) ==
    IF args = << >> THEN hash_base ELSE calc_fn_hash_full(hash_base, args[1])

\* A resolver whose first probe is the all-Dynamic permutation.
ResolveWildcardFirst(e, cache, op_token, hash_base, args, allow_dynamic) ==
    IF hash_base = 0 THEN ReturnNone(cache, << >>)
    ELSE LET hash == TypedHash(hash_base, args)
             start == IF args = << >> THEN hash
                      ELSE calc_fn_hash_full(hash_base,
                                [i \in 1..Len(args[1]) |-> DynamicTypeId])
         IN  IF hash \in DOMAIN cache.map
             THEN [ret |-> cache.map[hash], local_entry |-> << >>,
                   cache |-> cache, hit |-> TRUE, inserted |-> FALSE,
                   filter_hash |-> << >>, probes |-> << >>]
             ELSE ResolveLoop(e, cache, hash, hash_base, args, op_token,
                              allow_dynamic, start, 1, 0, << >>)

\* resolve_fn on the current cache; args is None or Some(type ids).
resolve_fn(e, cache, op_token, hash_base, args, allow_dynamic) ==
    IF hash_base = 0 THEN ReturnNone(cache, << >>)
    ELSE LET hash == TypedHash(hash_base, args)
         IN  IF hash \in DOMAIN cache.map
             THEN [ret |-> cache.map[hash], local_entry |-> << >>,
                   cache |-> cache, hit |-> TRUE, inserted |-> FALSE,
                   filter_hash |-> << >>, probes |-> << >>]
             ELSE ResolveLoop(e, cache, hash, hash_base, args, op_token,
                              allow_dynamic, hash, 1, 0, << >>)

----------------------------------------------------------------------------
(* The runtime state of a call *)

\* Dynamic values: () and two integers.
UNIT == 0
Values == {1, 42}

\* GlobalRuntimeState::new: level 0, no source, no embedded resolver.
NewGlobal ==
    [level |-> 0, source |-> << >>, embedded_module_resolver |-> << >>,
     always_search_scope |-> FALSE, num_imports |-> 0]

\* RhaiResult
Ok(v) == [ok |-> TRUE, val |-> v, err |-> ""]
Err(e) == [ok |-> FALSE, val |-> UNIT, err |-> e]

\* What the observer sees of the state around a call.
Snapshot(g, sc, var) ==
    [level |-> g.level, source |-> g.source,
     embedded_module_resolver |-> g.embedded_module_resolver,
     scope_len |-> Len(sc), var |-> var,
     always_search_scope |-> g.always_search_scope,
     num_imports |-> g.num_imports]

\* ArgBackup::new
ArgBackupNew == [orig_mut |-> << >>, value_copy |-> UNIT]

\* A call in progress: the handler that made it (path), its callee (kind,
\* fn), its first argument slot, the scoped guards that are armed, and the
\* state before the call.
BlankFrame ==
    [path |-> "", kind |-> "", name |-> "", fn |-> "", source |-> << >>,
     pure |-> FALSE, is_ref_mut |-> FALSE, is_method_call |-> FALSE,
     nargs |-> 0, arg0 |-> "none", arg_value |-> UNIT,
     backup |-> ArgBackupNew, arg_guard |-> FALSE,
     level_guard |-> FALSE, source_guard |-> << >>, resolver_guard |-> << >>,
     scope |-> "own", orig_scope_len |-> 0, rewind_scope |-> TRUE,
     this |-> FALSE, var |-> 1, n |-> 0, phase |-> "run", wrote |-> FALSE,
     locked |-> {}, foo_base |-> 0, calls |-> 0,
     want |-> "raw", typed |-> Ok(UNIT),
     read_only |-> FALSE, invoked |-> FALSE,
     before |-> Snapshot(NewGlobal, << >>, 1), slots |-> << >>,
     native_only |-> FALSE, operands |-> << >>, first_var |-> << >>,
     resolved |-> FALSE]

NoReturn == [n |-> 0, call |-> BlankFrame, result |-> Ok(UNIT),
             after |-> Snapshot(NewGlobal, << >>, 1)]

----------------------------------------------------------------------------
(* The resolver driven by its callers *)

\* All argument type lists up to MaxArgs.
ArgTypes == UNION {[1..n -> TypeIds] : n \in 0..MaxArgs}

\* Operand types of the operator calls: int + int, int + string.
OperandTypes == {<<1, 1>>, <<1, 2>>}

\* The calls that reach resolve_fn from exec_native_fn_call: a function f of
\* any arity, the operator + on two operands with its token (an operator
\* expression) or without one (a call redirected through a function pointer),
\* and a call whose hash is the "no hash" value 0.
NativeCalls ==
    {[hash_base |-> calc_fn_hash("f", Len(a)), args |-> <<a>>, op_token |-> << >>]
        : a \in ArgTypes}
    \cup {[hash_base |-> calc_fn_hash("+", 2), args |-> <<a>>, op_token |-> t]
        : a \in OperandTypes, t \in {<< >>, <<"Plus">>}}
    \cup {[hash_base |-> 0, args |-> <<a>>, op_token |-> << >>]
        : a \in [1..1 -> TypeIds]}

\* The script hashes exec_fn_call looks up: f with each arity.
ScriptCalls ==
    {[hash_base |-> calc_fn_hash("f", n), args |-> << >>, op_token |-> << >>]
        : n \in 0..MaxArgs}

NoCall ==
    [n |-> 0, hash_base |-> 0, args |-> << >>, op_token |-> << >>,
     allow_dynamic |-> FALSE, hash |-> 0, ret |-> << >>, local_entry |-> << >>,
     hit |-> FALSE, inserted |-> FALSE, filter_hash |-> << >>, probes |-> << >>,
     first |-> FALSE]

NoSightings == [once |-> {}, twice |-> {}]

\* History of the misses of typed hash h on one cache.
Sighted(sg, h) ==
    IF h \in sg.once THEN [sg EXCEPT !.twice = @ \cup {h}]
    ELSE [sg EXCEPT !.once = @ \cup {h}]

InitResolve ==
    /\ engine = EngineConfig
    /\ caches = << >>
    /\ sightings = << >>
    /\ last = NoCall
    /\ global = NewGlobal
    /\ scope = << >>
    /\ frames = << >>
    /\ returned = NoReturn
    /\ panic = FALSE

\* One resolve_fn call with the given inputs on the current cache.
Resolve(call, allow_dynamic) ==
    \E stack \in {fn_resolution_cache_mut(caches)} :
    \E sgs \in {IF caches = << >> THEN <<NoSightings>> ELSE sightings} :
    \E r \in {resolve_fn(engine, stack[Len(stack)], call.op_token,
                         call.hash_base, call.args, allow_dynamic)} :
    \E h \in {TypedHash(call.hash_base, call.args)} :
    \E miss \in {call.hash_base # 0 /\ ~r.hit} :
        /\ last.n < MaxResolves
        /\ caches' = [stack EXCEPT ![Len(stack)] = r.cache]
        /\ sightings' = IF miss THEN [sgs EXCEPT ![Len(stack)] = Sighted(@, h)]
                        ELSE sgs
        /\ last' = [n |-> last.n + 1, hash_base |-> call.hash_base,
                    args |-> call.args, op_token |-> call.op_token,
                    allow_dynamic |-> allow_dynamic, hash |-> h,
                    ret |-> r.ret, local_entry |-> r.local_entry,
                    hit |-> r.hit, inserted |-> r.inserted,
                    filter_hash |-> r.filter_hash, probes |-> r.probes,
                    first |-> miss /\ h \notin sgs[Len(stack)].once]
        /\ UNCHANGED <<engine, callVars>>

\* exec_native_fn_call: resolve_fn(.., op_token, hash, Some(args), true)
ResolveNative == \E call \in NativeCalls : Resolve(call, TRUE)

\* exec_fn_call: resolve_fn(.., None, hashes.script(), None, false)
ResolveScript == \E call \in ScriptCalls : Resolve(call, FALSE)

\* FnResolutionCache::clear on the current cache.
ClearCache ==
    /\ caches # << >>
    /\ caches' = [caches EXCEPT ![Len(caches)] = ClearedCache(@)]
    /\ sightings' = [sightings EXCEPT ![Len(caches)] = NoSightings]
    /\ UNCHANGED <<engine, last, callVars>>

\* Caches::push_fn_resolution_cache
PushCache ==
    /\ Len(caches) < MaxCacheStack
    /\ caches' = push_fn_resolution_cache(caches)
    /\ sightings' = Append(sightings, NoSightings)
    /\ UNCHANGED <<engine, last, callVars>>

\* Caches::rewind_fn_resolution_caches(len)
RewindCaches ==
    \E len \in 0..MaxCacheStack :
        /\ len < Len(caches)
        /\ caches' = rewind_fn_resolution_caches(caches, len)
        /\ sightings' = SubSeq(sightings, 1, len)
        /\ UNCHANGED <<engine, last, callVars>>

\* The resolver on the current cache, which may be cleared at any time.
NextResolve ==
    \/ ResolveNative
    \/ ResolveScript
    \/ ClearCache

SpecResolve == InitResolve /\ [][NextResolve]_vars

\* The resolver on a stack of caches.
NextCaches ==
    \/ ResolveNative
    \/ ResolveScript
    \/ ClearCache
    \/ PushCache
    \/ RewindCaches

SpecCaches == InitResolve /\ [][NextCaches]_vars

\* A caller that keeps the length of the stack before it pushes a cache, to
\* rewind to it when it is done, and the caches it left below.
Caller(stack) == [orig_fn_resolution_caches_len |-> Len(stack), below |-> stack]

\* A caller notes the length of the stack and pushes a cache.
PushForCaller ==
    /\ Len(caches) < MaxCacheStack
    /\ frames' = Append(frames, Caller(caches))
    /\ caches' = push_fn_resolution_cache(caches)
    /\ sightings' = Append(sightings, NoSightings)
    /\ returned' = NoReturn
    /\ UNCHANGED <<engine, last, global, scope, panic>>

\* A caller, the innermost or one that the inner ones unwind to, rewinds
\* the stack to the length it noted.
RewindForCaller ==
    \E i \in 1..Len(frames) :
        /\ caches' = rewind_fn_resolution_caches(
                            caches, frames[i].orig_fn_resolution_caches_len)
        /\ sightings' = SubSeq(sightings, 1,
                               frames[i].orig_fn_resolution_caches_len)
        /\ frames' = SubSeq(frames, 1, i - 1)
        /\ returned' = [NoReturn EXCEPT !.n = 1, !.call = frames[i]]
        /\ UNCHANGED <<engine, last, global, scope, panic>>

\* The resolver under callers that push a cache and rewind to the length
\* they noted.
NextCacheStack ==
    \/ ResolveNative
    \/ ResolveScript
    \/ ClearCache
    \/ PushForCaller
    \/ RewindForCaller

SpecCacheStack == InitResolve /\ [][NextCacheStack]_vars

----------------------------------------------------------------------------
(* The resolver over engines whose sources hold overloads of f *)

\* The functions named f that a source can hold: the script function f/1,
\* under its base hash, and native functions under their typed hashes.
OverloadNames ==
    {"f/1", "f(int)", "f(Dynamic)", "f(int,Dynamic)", "f(Dynamic,int)",
     "f(Dynamic,Dynamic)"}

OverloadParams(o) ==
    CASE o = "f(int)" -> <<1>>
      [] o = "f(Dynamic)" -> <<DynamicTypeId>>
      [] o = "f(int,Dynamic)" -> <<1, DynamicTypeId>>
      [] o = "f(Dynamic,int)" -> <<DynamicTypeId, 1>>
      [] o = "f(Dynamic,Dynamic)" -> <<DynamicTypeId, DynamicTypeId>>
      [] OTHER -> <<1>>

OverloadBase(o) == calc_fn_hash("f", Len(OverloadParams(o)))

\* The hash a module files the function under.
OverloadHash(o) ==
    IF o = "f/1" THEN OverloadBase(o)
    ELSE calc_fn_hash_full(OverloadBase(o), OverloadParams(o))

HasDynamicParam(o) ==
    o # "f/1" /\ \E i \in 1..Len(OverloadParams(o)) :
                    OverloadParams(o)[i] = DynamicTypeId

\* A module holding the given functions; it reports may_contain_dynamic_fn
\* for the base hash of every function with a Dynamic parameter.
SourceModule(id, held) ==
    Module(id,
           [h \in {OverloadHash(o) : o \in held} |->
                LET o == CHOOSE x \in held : OverloadHash(x) = h
                IN  Callable(IF o = "f/1" THEN "script" ELSE "native", FALSE,
                             id \o "::" \o o)],
           {OverloadBase(o) : o \in {x \in held : HasDynamicParam(x)}})

\* An engine and a call site whose four sources hold the given functions.
SourceEngine(lib, global_modules, imports, global_sub_modules) ==
    [lib |-> <<SourceModule("ast", lib)>>,
     global_modules |-> <<SourceModule("pkg", global_modules)>>,
     imports |-> <<SourceModule("imp", imports)>>,
     global_sub_modules |-> <<SourceModule("sub", global_sub_modules)>>]

\* The same function in several sources, an exact overload beside a
\* wildcard one, and every set of wildcard overloads of arity two.
SourceEngines ==
    {SourceEngine(l, g, i, s) :
        l \in SUBSET {"f/1"}, g \in SUBSET {"f/1", "f(int)", "f(Dynamic)"},
        i \in SUBSET {"f/1", "f(int)"}, s \in SUBSET {"f(int)", "f(Dynamic)"}}
    \cup {SourceEngine({}, g, {}, {}) :
            g \in SUBSET {"f(int,Dynamic)", "f(Dynamic,int)",
                          "f(Dynamic,Dynamic)"}}

\* The calls of f: f(int), f(string), f(int, int), f(string, int) with their
\* argument types, and the lookup of the script function f/1 without any.
SourceCalls ==
    {[hash_base |-> calc_fn_hash("f", Len(a)), args |-> <<a>>, op_token |-> << >>]
        : a \in {<<1>>, <<2>>, <<1, 1>>, <<2, 1>>}}
    \cup {[hash_base |-> calc_fn_hash("f", 1), args |-> << >>, op_token |-> << >>]}

InitSources ==
    /\ engine \in SourceEngines
    /\ caches = << >>
    /\ sightings = << >>
    /\ last = NoCall
    /\ global = NewGlobal
    /\ scope = << >>
    /\ frames = << >>
    /\ returned = NoReturn
    /\ panic = FALSE

\* resolve_fn on every value of its allow_dynamic parameter.
ResolveFn ==
    \E call \in SourceCalls, allow_dynamic \in BOOLEAN :
        Resolve(call, allow_dynamic)

NextSources ==
    \/ ResolveFn
    \/ ClearCache

SpecSources == InitSources /\ [][NextSources]_vars

----------------------------------------------------------------------------
(* The program and the engine of the calls *)

\* The script functions of the compiled program (its shared library):
\*   fn f(x) { .. }  fn foo(n) { .. n + foo(n - 1) .. }
\*   fn decl(x) { let hello = x; }  fn empty() { }
\*   fn action(x) { this += x; }
ProgramLib ==
    Module("ast",
           (calc_fn_hash("f", 1) :> Callable("script", FALSE, "f/1"))
           @@ (calc_fn_hash("foo", 1) :> Callable("script", FALSE, "foo/1"))
           @@ (calc_fn_hash("decl", 1) :> Callable("script", FALSE, "decl/1"))
           @@ (calc_fn_hash("empty", 0) :> Callable("script", FALSE, "empty/0"))
           @@ (calc_fn_hash("action", 1) :> Callable("script", FALSE, "action/1")),
           {})

\* Registered functions: g(int) pure, h(int) a method on &mut int, p(int) a
\* plugin method on &mut int, q(int) a pure plugin function, print(int); a
\* native f(int) beside the script function f(x) of the program, and a
\* script function p(x) of a package beside the plugin p(int), and a
\* registered +(string, string), and r(int) a plugin method on &mut int.
RegisteredFns ==
    Module("",
           (calc_fn_hash_full(calc_fn_hash("g", 1), <<1>>)
                :> Callable("native", TRUE, "g(int)"))
           @@ (calc_fn_hash_full(calc_fn_hash("f", 1), <<1>>)
                :> Callable("native", TRUE, "f(int)"))
           @@ (calc_fn_hash("p", 1) :> Callable("script", FALSE, "pkg::p/1"))
           @@ (calc_fn_hash_full(calc_fn_hash("+", 2), <<2, 2>>)
                :> Callable("native", TRUE, "+(string,string)"))
           @@ (calc_fn_hash_full(calc_fn_hash("h", 1), <<1>>)
                :> Callable("native", FALSE, "h(int)"))
           @@ (calc_fn_hash_full(calc_fn_hash("p", 1), <<1>>)
                :> Callable("plugin", FALSE, "p(int)"))
           @@ (calc_fn_hash_full(calc_fn_hash("q", 1), <<1>>)
                :> Callable("plugin", TRUE, "q(int)"))
           @@ (calc_fn_hash_full(calc_fn_hash("r", 1), <<1>>)
                :> Callable("plugin", FALSE, "r(int)"))
           @@ (calc_fn_hash_full(calc_fn_hash("print", 1), <<1>>)
                :> Callable("native", TRUE, "print(int)")),
           {})

\* The module imported as `imp`: a script function sf(x), a pure native
\* g(int) and a plugin method p(int), indexed by their qualified hashes.
ImportedModule ==
    Module("imp",
           (calc_qualified_fn_hash(<<"imp">>, "sf", 1)
                :> Callable("script", FALSE, "imp::sf/1"))
           @@ (calc_fn_hash_full(calc_qualified_fn_hash(<<"imp">>, "g", 1), <<1>>)
                :> Callable("native", TRUE, "imp::g(int)"))
           @@ (calc_fn_hash_full(calc_qualified_fn_hash(<<"imp">>, "p", 1), <<1>>)
                :> Callable("plugin", FALSE, "imp::p(int)")),
           {})

\* The engine of the calls, with its fast_operators option.
CallEngine(fast_operators) ==
    [lib |-> <<ProgramLib>>,
     global_modules |-> <<RegisteredFns>>,
     imports |-> <<ImportedModule>>,
     global_sub_modules |-> << >>,
     fast_operators |-> fast_operators]

\* ScriptFnDef.body.is_empty()
body_is_empty(f) == f.tag = "empty/0"

\* A compiled program: whether it has top-level statements, its embedded
\* module resolver, and the base case of its foo (n == 0 or n <= 1).
Programs ==
    {[statements |-> st, resolver |-> <<"resolver">>, foo_base |-> b]
        : st \in BOOLEAN, b \in {0, 1}}

\* A call expression as it reaches exec_fn_call: the name, the argument
\* types, whether the first argument is a &mut to the caller's variable,
\* whether it is a method call, whether the first argument is read-only,
\* which arguments are locked shared values, whether the parent scope is
\* captured, and the variable that the first argument names, if the call
\* was made on one.
CallSite(name, types, is_ref_mut, is_method_call) ==
    [name |-> name, types |-> types, is_ref_mut |-> is_ref_mut,
     is_method_call |-> is_method_call, native_only |-> FALSE,
     read_only |-> FALSE, locked |-> {}, capture |-> FALSE,
     op_token |-> << >>, n |-> 0, first_var |-> << >>]

\* f(x), f(1), x.f(), a closure call capturing the scope, g(x), g(1), x.h(),
\* h(1), p(1), x.p() on a variable and on a constant, c.h(), c.g() and c.q() on a
\* constant (a function call takes a copy of a constant), empty(), nofn(),
\* print(1), x.type_of() redirected with native-only hashes, x.eval()
\* likewise, and g(x, y) with a locked second argument.
CallSites ==
    {CallSite("f", <<1>>, TRUE, FALSE),
     CallSite("f", <<1>>, FALSE, FALSE),
     CallSite("f", <<1, 1>>, TRUE, TRUE),
     [CallSite("f", <<1>>, FALSE, FALSE) EXCEPT !.capture = TRUE],
     CallSite("g", <<1>>, TRUE, FALSE),
     CallSite("g", <<1>>, FALSE, FALSE),
     CallSite("h", <<1>>, TRUE, TRUE),
     CallSite("h", <<1>>, FALSE, FALSE),
     CallSite("p", <<1>>, FALSE, FALSE),
     CallSite("p", <<1>>, TRUE, TRUE),
     [CallSite("p", <<1>>, TRUE, TRUE) EXCEPT !.read_only = TRUE],
     [CallSite("h", <<1>>, TRUE, TRUE) EXCEPT !.read_only = TRUE],
     [CallSite("g", <<1>>, TRUE, TRUE) EXCEPT !.read_only = TRUE],
     [CallSite("q", <<1>>, TRUE, TRUE) EXCEPT !.read_only = TRUE],
     CallSite("empty", << >>, FALSE, FALSE),
     CallSite("nofn", << >>, FALSE, FALSE),
     CallSite("print", <<1>>, FALSE, FALSE),
     [CallSite("type_of", <<1>>, TRUE, TRUE) EXCEPT !.native_only = TRUE],
     [CallSite("eval", <<1>>, TRUE, TRUE) EXCEPT !.native_only = TRUE],
     [CallSite("g", <<1, 1>>, TRUE, FALSE) EXCEPT !.locked = {2}]}

\* What search_namespace finds for a variable: whether the value is
\* read-only (a constant), whether it is shared, and whether it is a
\* temporary value (one that a variable resolver made) rather than a slot
\* of the scope.
Variable(read_only, shared, temp) ==
    [read_only |-> read_only, shared |-> shared, temp |-> temp]

Variables == {Variable(r, s, t) : r \in BOOLEAN, s \in BOOLEAN, t \in BOOLEAN}

\* A constant that stays a reference to its slot.
into_owned_keeps_ref(target) == target

\* Target::into_owned: a temporary value that holds a clone, and a clone is
\* never read-only.
into_owned(target) == [target EXCEPT !.read_only = FALSE, !.temp = TRUE]

\* Target::is_temp_value
is_temp_value(target) == target.temp

\* A first argument that is passed by reference whatever the variable is.
make_function_call_by_ref(name, types, first_var, curry_len) ==
    IF types = << >> \/ curry_len # 0 \/ first_var = << >>
    THEN CallSite(name, types, FALSE, FALSE)
    ELSE [CallSite(name, types, TRUE, FALSE)
            EXCEPT !.read_only = first_var[1].read_only,
                   !.first_var = first_var]

\* make_function_call from the evaluation of the arguments to the call of
\* exec_fn_call: with no curried argument and a variable for first argument
\* the target is looked up, a read-only one is made an owned copy, and a
\* shared or temporary one is taken or cloned into the argument values;
\* only any other is passed as the &mut first argument.
make_function_call(name, types, first_var, curry_len) ==
    IF types = << >> \/ curry_len # 0 \/ first_var = << >>
    THEN CallSite(name, types, FALSE, FALSE)
    ELSE LET target == IF first_var[1].read_only THEN into_owned(first_var[1])
                       ELSE first_var[1]
         IN  IF target.shared \/ is_temp_value(target)
             THEN [CallSite(name, types, FALSE, FALSE)
                     EXCEPT !.first_var = first_var]
             ELSE [CallSite(name, types, TRUE, FALSE)
                     EXCEPT !.read_only = target.read_only,
                            !.first_var = first_var]

\* The functions called on a variable: the script function f, the pure g,
\* the methods h and r, the pure plugin function q.
VariableCallNames == {"f", "g", "h", "q", "r"}

\* The arguments foo is called with from the top level.
FooArgs == 0..(MaxCallLevels + 2)

\* foo(n) with n a value.
FooSite(n) == [CallSite("foo", <<1>>, FALSE, FALSE) EXCEPT !.n = n]

\* Every call is taken for one with native-only hashes.
AlwaysNativeOnly(hashes) == TRUE

\* FnCallHashes::is_native_only: there is no script hash.
is_native_only(hashes) == hashes.script = 0

\* FnCallHashes: the script hash leaves out the object of a method call.
SiteHashes(site) ==
    [script |-> IF site.native_only THEN 0
                ELSE calc_fn_hash(site.name,
                                  IF site.is_method_call THEN Len(site.types) - 1
                                  ELSE Len(site.types)),
     native |-> calc_fn_hash(site.name, Len(site.types))]

----------------------------------------------------------------------------
(* Scoped state changes: src/func/call.rs *)

\* ErrorDataRace("argument #{arg} of function '{fn_name}'").
ErrDataRace(arg, fn_name) ==
    [fn_name |-> fn_name, ok |-> FALSE, val |-> UNIT,
     err |-> "ErrorDataRace", arg |-> arg]

\* args.iter().enumerate().skip(i).find(|(.., a)| a.is_locked()): the
\* zero-based index of the first locked argument from slot i on. An argument
\* is given by whether it is a locked shared value.
RECURSIVE FindLocked(_, _)
FindLocked(args, i) ==
    IF i >= Len(args) THEN << >>
    ELSE IF args[i + 1] THEN <<i>>
    ELSE FindLocked(args, i + 1)

\* The index counted from the first scanned argument.
EnsureNoDataRaceCountsScanned(fn_name, args, is_ref_mut) ==
    LET skip == IF is_ref_mut THEN 1 ELSE 0
        found == FindLocked(args, skip)
    IN  IF found # << >> THEN ErrDataRace(found[1] - skip + 1, fn_name)
        ELSE Ok(UNIT)

\* ensure_no_data_race: no locked argument, the &mut receiver aside.
ensure_no_data_race(fn_name, args, is_ref_mut) ==
    LET found == FindLocked(args, IF is_ref_mut THEN 1 ELSE 0)
    IN  IF found # << >> THEN ErrDataRace(found[1] + 1, fn_name)
        ELSE Ok(UNIT)

\* The arguments of a call of which those numbered in locked are locked.
LockedArgs(locked, nargs) == [n \in 1..nargs |-> n \in locked]

\* The check on every argument list of up to MaxRaceArgs arguments.
RaceChecks ==
    [fn_name : {"f", "g"},
     args : UNION {[1..n -> BOOLEAN] : n \in 0..MaxRaceArgs},
     is_ref_mut : BOOLEAN, checked : {FALSE}, result : {Ok(UNIT)}]

InitRace ==
    /\ engine = SourceEngine({}, {}, {}, {})
    /\ caches = << >>
    /\ sightings = << >>
    /\ last \in RaceChecks
    /\ global = NewGlobal
    /\ scope = << >>
    /\ frames = << >>
    /\ returned = NoReturn
    /\ panic = FALSE

EnsureNoDataRace ==
    /\ ~last.checked
    /\ last' = [last EXCEPT
                    !.checked = TRUE,
                    !.result = ensure_no_data_race(last.fn_name, last.args,
                                                   last.is_ref_mut)]
    /\ UNCHANGED <<engine, caches, sightings, global, scope, frames,
                   returned, panic>>

NextRace == EnsureNoDataRace

SpecRace == InitRace /\ [][NextRace]_vars

\* A call that does not count its nesting.
EnterLevelUncounted(g) == g

\* global.level += 1
EnterLevel(g) == [g EXCEPT !.level = @ + 1]

\* A level guard that does nothing when it drops.
LeaveLevelForgotten(g) == g

\* RestoreOnDrop::lock(global, |g| g.level -= 1), when it drops
LeaveLevel(g) == [g EXCEPT !.level = @ - 1]

\* mem::replace(&mut global.source, source)
ReplaceSource(g, source) == [g EXCEPT !.source = source]

\* A source guard that does nothing when it drops.
RestoreSourceForgotten(g, orig_source) == g

\* RestoreOnDrop::lock(global, |g| g.source = orig_source), when it drops
RestoreSource(g, orig_source) == [g EXCEPT !.source = orig_source]

\* The value behind args[0]: the caller's variable, the backup's copy, or a
\* value the caller evaluated.
ArgValue(frame, var) ==
    CASE frame.arg0 = "ref" -> var
      [] frame.arg0 = "copy" -> frame.backup.value_copy
      [] frame.arg0 = "value" -> frame.arg_value
      [] OTHER -> UNIT

\* ArgBackup::change_first_arg_to_copy
change_first_arg_to_copy(frame, var) ==
    [frame EXCEPT !.backup = [orig_mut |-> <<frame.arg0>>,
                              value_copy |-> ArgValue(frame, var)],
                  !.arg0 = "copy"]

\* ArgBackup::restore_first_arg
restore_first_arg(frame) ==
    IF frame.backup.orig_mut # << >>
    THEN [frame EXCEPT !.arg0 = frame.backup.orig_mut[1],
                       !.backup.orig_mut = << >>]
    ELSE [frame EXCEPT !.arg0 = "unreachable"]

\* Drop for ArgBackup: the assertion fails when orig_mut is still set.
ArgBackupDropPanics(frame) ==
    frame.backup.orig_mut # << >> \/ frame.arg0 = "unreachable"

\* A native call that never swaps its first argument for a clone.
NativeSwapNever(is_ref_mut, func, nargs) == FALSE

\* Any method on a constant, plugin or not.
NonPureNativeOnConstant(func, nargs, read_only) ==
    ~is_pure(func) /\ nargs > 0 /\ read_only

\* !f.is_pure() && !args.is_empty() && args[0].is_read_only(), tested of a
\* plugin function only.
NonPureMethodCallOnConstant(func, nargs, read_only) ==
    is_plugin_fn(func) /\ ~is_pure(func) /\ nargs > 0 /\ read_only

\* exec_native_fn_call: swap = is_ref_mut && func.is_pure() && !args.is_empty()
NativeSwap(is_ref_mut, func, nargs) == is_ref_mut /\ is_pure(func) /\ nargs > 0

\* A script call that never swaps its first argument for a clone.
ScriptSwapNever(is_ref_mut, nargs) == FALSE

\* exec_fn_call, function-call style: swap = is_ref_mut && !args.is_empty()
ScriptSwap(is_ref_mut, nargs) == is_ref_mut /\ nargs > 0

\* A restore that runs on the normal path only.
RestoreOnSuccessOnly(frame, ok) ==
    IF frame.arg_guard /\ ok THEN restore_first_arg(frame) ELSE frame

\* RestoreOnDrop::lock_if(swap, args, |a| backup.restore_first_arg(a)), when
\* it drops: on every exit, whatever the outcome.
RestoreOnDropArgs(frame, ok) ==
    IF frame.arg_guard THEN restore_first_arg(frame) ELSE frame

\* The outcome of a handler: whether the call is over, the callee's frame,
\* the result, and the state the handler leaves.
Step(done, frame, result, g, cache, sc, var, pnc) ==
    [done |-> done, frame |-> frame, result |-> result, global |-> g,
     cache |-> cache, scope |-> sc, var |-> var, panic |-> pnc]

\* Leaving exec_fn_call (and exec_native_fn_call inside it): the guards drop
\* in the reverse order of their declaration: the argument guard, the
\* ArgBackup, the source guard, the level guard.
Unwind(frame, result, g, cache, sc, var) ==
    LET f1 == RestoreOnDropArgs(frame, result.ok)
        g1 == IF frame.source_guard # << >>
              THEN RestoreSource(g, frame.source_guard[1]) ELSE g
        g2 == IF frame.level_guard THEN LeaveLevel(g1) ELSE g1
    IN  Step(TRUE, f1, result, g2, cache, sc, var, ArgBackupDropPanics(f1))

\* Option<ImmutableString> of a module id.
SourceOf(id) == IF id = "" THEN << >> ELSE <<id>>

----------------------------------------------------------------------------
(* Script invocation: call_script_fn *)

\* The value bound to the parameter: the first of the remaining arguments
\* of a method call, the first argument otherwise.
BindValue(frame, var) ==
    IF frame.this THEN frame.arg_value ELSE ArgValue(frame, var)

\* mem::take of the argument slot that is bound: the slot is left ().
TakeSlot(frame) ==
    IF frame.this THEN frame
    ELSE CASE frame.arg0 = "copy" -> [frame EXCEPT !.backup.value_copy = UNIT]
           [] frame.arg0 = "value" -> [frame EXCEPT !.arg_value = UNIT]
           [] OTHER -> frame

TakeVar(frame, var) ==
    IF ~frame.this /\ frame.arg0 = "ref" THEN UNIT ELSE var

\* Entering the executor: the nesting limit, then the bindings.
call_script_fn(frame, g, sc, var, rewind_scope) ==
    IF g.level > MaxCallLevels
    THEN [overflow |-> TRUE, frame |-> frame, scope |-> sc, var |-> var]
    ELSE [overflow |-> FALSE,
          frame |-> [TakeSlot(frame) EXCEPT !.orig_scope_len = Len(sc),
                                            !.rewind_scope = rewind_scope,
                                            !.n = BindValue(frame, var)],
          scope |-> IF frame.scope = "host"
                    THEN Append(sc, [name |-> "x", value |-> BindValue(frame, var)])
                    ELSE sc,
          var |-> TakeVar(frame, var)]

\* Scope::rewind
rewind(sc, len) == SubSeq(sc, 1, Min(len, Len(sc)))

\* Leaving the executor: the scope is truncated to its length before the
\* call when rewind_scope is set; what the body declared stays otherwise
\* (whether the bindings stay too is left open).
call_script_fn_exit(frame, sc, keep_bindings) ==
    IF frame.scope # "host" THEN sc
    ELSE IF frame.rewind_scope THEN rewind(sc, frame.orig_scope_len)
    ELSE IF keep_bindings THEN sc
    ELSE SubSeq(sc, 1, frame.orig_scope_len)
         \o SubSeq(sc, frame.orig_scope_len + 2, Len(sc))

----------------------------------------------------------------------------
(* Engine::exec_native_fn_call and Engine::exec_fn_call *)

\* Engine::map_type_name(args[0].type_name()) of an argument given by the
\* id of its type.
map_type_name(type) == IF type = 1 THEN "i64" ELSE "string"

\* An exec_fn_call that answers no name itself.
KeywordResultNone(name, types) == << >>

\* The names exec_fn_call answers itself when the hashes are native-only:
\* type_of with one argument by the name of its type; is_shared, Fn, eval
\* and is_def_var with one argument, call and curry with at least one, by
\* no_method_err. (The arm of is_def_fn is IsDefFnInExecFnCall.)
KeywordResult(name, types) ==
    CASE name = "type_of" /\ Len(types) = 1 -> <<Ok(map_type_name(types[1]))>>
      [] name = "is_shared" /\ Len(types) = 1 -> <<Err("ErrorRuntime")>>
      [] name \in {"Fn", "eval", "is_def_var"} /\ Len(types) = 1 ->
            <<Err("ErrorRuntime")>>
      [] name \in {"call", "curry"} /\ types # << >> -> <<Err("ErrorRuntime")>>
      [] OTHER -> << >>

\* exec_native_fn_call up to the call of the function.
exec_native_fn_call(e, frame, g, cache, sc, var, site, hash, track_ok) ==
    IF ~track_ok
    THEN Unwind(frame, Err("ErrorTooManyOperations"), g, cache, sc, var)
    ELSE LET rs == resolve_fn(e, cache, site.op_token, hash, <<site.types>>, TRUE)
         IN  IF rs.ret = << >>
             THEN Unwind([frame EXCEPT !.resolved = TRUE],
                         Err("ErrorFunctionNotFound"), g, rs.cache, sc, var)
             ELSE LET func == rs.ret[1].func
                      swap == NativeSwap(frame.is_ref_mut, func, frame.nargs)
                      f1 == [frame EXCEPT !.kind = func.kind, !.fn = func.tag,
                                          !.pure = is_pure(func),
                                          !.resolved = TRUE,
                                          !.source = SourceOf(rs.ret[1].source)]
                      f2 == IF swap THEN change_first_arg_to_copy(f1, var) ELSE f1
                      f3 == [f2 EXCEPT !.arg_guard = swap]
                 IN  IF NonPureMethodCallOnConstant(func, frame.nargs,
                                                    site.read_only)
                     THEN Unwind(f3, Err("ErrorNonPureMethodCallOnConstant"),
                                 g, rs.cache, sc, var)
                     ELSE Step(FALSE, f3, Ok(UNIT), g, rs.cache, sc, var, FALSE)

\* The script branch of exec_fn_call, up to the run of the body.
ScriptBranch(frame, entry, g, cache, sc, var, site, parent_scope) ==
    IF body_is_empty(entry.func)
    THEN Unwind(frame, Ok(UNIT), g, cache, sc, var)
    ELSE LET g2 == ReplaceSource(g, SourceOf(entry.source))
             f2 == [frame EXCEPT
                        !.kind = "script", !.fn = entry.func.tag,
                        !.source = SourceOf(entry.source),
                        !.source_guard = <<g.source>>,
                        !.this = site.is_method_call,
                        !.scope = IF site.capture /\ parent_scope = "host"
                                     /\ sc # << >>
                                  THEN "host" ELSE "own"]
             swap == ~site.is_method_call
                     /\ ScriptSwap(frame.is_ref_mut, frame.nargs)
             f3 == IF swap THEN change_first_arg_to_copy(f2, var) ELSE f2
             f4 == [f3 EXCEPT !.arg_guard = swap]
             run == call_script_fn(f4, g2, sc, var, TRUE)
         IN  IF run.overflow
             THEN Unwind(f4, Err("ErrorStackOverflow"), g2, cache, sc, var)
             ELSE Step(FALSE, run.frame, Ok(UNIT), g2, cache, run.scope,
                       run.var, FALSE)

\* exec_fn_call up to the run of the callee.
exec_fn_call(e, g, cache, sc, var, site, parent_scope, foo_base, track_ok) ==
    LET nargs == Len(site.types)
        f0 == [BlankFrame EXCEPT
                  !.path = "exec_fn_call", !.name = site.name,
                  !.is_ref_mut = site.is_ref_mut,
                  !.read_only = site.read_only,
                  !.is_method_call = site.is_method_call,
                  !.nargs = nargs,
                  !.arg0 = IF nargs = 0 THEN "none"
                           ELSE IF site.is_ref_mut THEN "ref" ELSE "value",
                  !.arg_value = IF site.name = "foo" THEN site.n
                                ELSE IF nargs = 0 THEN UNIT ELSE var,
                  !.foo_base = foo_base,
                  !.before = Snapshot(g, sc, var),
                  !.native_only = site.native_only,
                  !.first_var = site.first_var]
        race == ensure_no_data_race(site.name,
                                    LockedArgs(site.locked, nargs),
                                    site.is_ref_mut)
    IN  IF ~race.ok
        THEN Step(TRUE, f0, race, g, cache, sc, var, FALSE)
        ELSE LET g1 == EnterLevel(g)
                 f1 == [f0 EXCEPT !.level_guard = TRUE]
                 hashes == SiteHashes(site)
                 rs == IF is_native_only(hashes) THEN ReturnNone(cache, << >>)
                       ELSE resolve_fn(e, cache, << >>, hashes.script, << >>, FALSE)
             IN  IF is_native_only(hashes)
                    /\ KeywordResult(site.name, site.types) # << >>
                 THEN Unwind(f1, KeywordResult(site.name, site.types)[1], g1,
                             cache, sc, var)
                 ELSE LET f2 == [f1 EXCEPT
                                    !.resolved = ~is_native_only(hashes)]
                      IN  IF rs.ret # << >>
                          THEN ScriptBranch(f2, rs.ret[1], g1, rs.cache, sc,
                                            var, site, parent_scope)
                          ELSE exec_native_fn_call(e, f2, g1, rs.cache, sc, var,
                                                   site, hashes.native,
                                                   track_ok)

----------------------------------------------------------------------------
(* The calls of a running script *)

Top == frames[Len(frames)]

\* The innermost call runs script code that may do anything: the top-level
\* statements, the body of f or sf, the statements of an eval.
Running ==
    /\ ~panic
    /\ frames # << >>
    /\ frames[1].calls < MaxCalls
    /\ Top.kind \in {"stmts", "script", "eval"}
    /\ Top.fn \notin {"foo/1", "decl/1", "empty/0", "action/1"}

Returned(frame, result, after) ==
    [n |-> 1, call |-> frame, result |-> result, after |-> after]

\* The effect of a handler entered from the running code: the call is over
\* at once, or its callee is the new innermost call.
EnterKeeping(st, phase, cache_asked) ==
    LET counted == [frames EXCEPT ![1].calls = @ + 1,
                                  ![Len(frames)].var = st.var,
                                  ![Len(frames)].phase = phase]
    IN  /\ global' = st.global
        /\ scope' = st.scope
        /\ panic' = st.panic
        /\ caches' = IF ~cache_asked THEN caches
                      ELSE [fn_resolution_cache_mut(caches)
                            EXCEPT ![Len(fn_resolution_cache_mut(caches))] = st.cache]
        /\ IF st.done
           THEN /\ frames' = counted
                /\ returned' = Returned(st.frame, st.result,
                                        Snapshot(st.global, st.scope, st.var))
           ELSE /\ frames' = Append(counted, [st.frame EXCEPT !.invoked = TRUE])
                /\ returned' = NoReturn
        /\ UNCHANGED <<engine, sightings, last>>

\* A handler that asks for the resolution cache.
Enter(st, phase) == EnterKeeping(st, phase, TRUE)

\* The effect of the innermost call returning to its caller.
Leave(st) ==
    /\ global' = st.global
    /\ scope' = st.scope
    /\ panic' = st.panic
    /\ frames' = [SubSeq(frames, 1, Len(frames) - 1)
                    EXCEPT ![Len(frames) - 1].var = st.var]
    /\ returned' = Returned(st.frame, st.result,
                            Snapshot(st.global, st.scope, st.var))
    /\ UNCHANGED <<engine, caches, sightings, last>>

CurrentCache == fn_resolution_cache_mut(caches)[Len(fn_resolution_cache_mut(caches))]

\* make_function_call: a call expression of the running code, dispatched
\* through exec_fn_call.
MakeFunctionCall ==
    /\ Running
    /\ Len(frames) < MaxDepth
    /\ \E site \in CallSites, track_ok \in BOOLEAN :
       \E st \in {exec_fn_call(engine, global, CurrentCache, scope, Top.var,
                               site, Top.scope, Top.foo_base, track_ok)} :
            Enter(st, "run")

\* A call f(x) of the running code whose first argument is a variable, with
\* or without curried arguments.
CallOnVariable ==
    /\ Running
    /\ Len(frames) < MaxDepth
    /\ \E name \in VariableCallNames, v \in Variables,
          curry_len \in 0..1, track_ok \in BOOLEAN :
       \E site \in {make_function_call(name, [i \in 1..(1 + curry_len) |-> 1],
                                       <<v>>, curry_len)} :
       \E st \in {exec_fn_call(engine, global, CurrentCache, scope, Top.var,
                               site, Top.scope, Top.foo_base, track_ok)} :
            Enter(st, "run")

\* The calls that method-call style redirects with native-only hashes,
\* x.name(..), and the same names called with both hashes: the keywords and
\* the registered g, with one argument of either type, with two and with
\* three arguments; and a call with no argument.
KeywordNames ==
    {"type_of", "Fn", "eval", "is_def_var", "is_shared", "call", "curry", "g"}

KeywordSites ==
    {[CallSite(name, types, by_ref, by_ref) EXCEPT !.native_only = native_only]
        : name \in KeywordNames,
          types \in {<<1>>, <<2>>, <<1, 1>>, <<1, 1, 1>>},
          by_ref \in BOOLEAN, native_only \in BOOLEAN}
    \cup {[CallSite(name, << >>, FALSE, FALSE) EXCEPT !.native_only = native_only]
            : name \in KeywordNames, native_only \in BOOLEAN}

\* A call of the top-level statements that reaches exec_fn_call under the
\* name of a keyword.
KeywordCall ==
    /\ Running
    /\ Len(frames) < MaxDepth
    /\ \E site \in KeywordSites, track_ok \in BOOLEAN :
       \E st \in {exec_fn_call(engine, global, CurrentCache, scope, Top.var,
                               site, Top.scope, Top.foo_base, track_ok)} :
            EnterKeeping(st, "run", st.frame.resolved)

\* A let statement of the running code.
DeclareVar ==
    /\ Running
    /\ Top.scope = "host"
    /\ Len(scope) < MaxScope
    /\ scope' = Append(scope, [name |-> "z", value |-> 1])
    /\ returned' = NoReturn
    /\ UNCHANGED <<engine, caches, sightings, last, global, frames, panic>>

\* A script function that gets a copy of the `this` value.
ThisIsACopy(frame) == FALSE

\* The `this` of the script function is the caller's value itself: the
\* &mut first argument of a method call, the this_ptr given to _call_fn.
ThisIsCallersValue(frame) == frame.arg0 = "ref" \/ frame.path = "call_fn"

\* The body of a method assigns to `this`.
WriteThis ==
    /\ Running
    /\ Top.this /\ ~Top.wrote
    /\ \E v \in Values \ {frames[Len(frames) - 1].var} :
        frames' = [frames EXCEPT ![Len(frames)].wrote = TRUE,
                                 ![Len(frames) - 1].var =
                                    IF ThisIsCallersValue(Top) THEN v ELSE @]
    /\ returned' = NoReturn
    /\ UNCHANGED <<engine, caches, sightings, last, global, scope, panic>>

\* The body of a function assigns to its first parameter, the variable of
\* its own scope that holds the value taken from slot 0.
WriteParam ==
    /\ Running
    /\ Top.kind = "script" /\ Top.path = "exec_fn_call"
    /\ ~Top.this /\ Top.nargs > 0 /\ ~Top.wrote
    /\ \E v \in Values \ {Top.n} :
        frames' = [frames EXCEPT ![Len(frames)].wrote = TRUE,
                                 ![Len(frames)].n = v]
    /\ returned' = NoReturn
    /\ UNCHANGED <<engine, caches, sightings, last, global, scope, panic>>

\* The native function writes through its first argument.
NativeWrite ==
    /\ ~panic
    /\ frames # << >>
    /\ Top.kind \in {"native", "plugin"}
    /\ Top.nargs > 0 /\ ~Top.wrote
    /\ \E v \in Values \ {ArgValue(Top, frames[Len(frames) - 1].var)} :
        frames' =
            [frames EXCEPT
                ![Len(frames)] =
                    [@ EXCEPT !.wrote = TRUE,
                              !.backup.value_copy =
                                    IF Top.arg0 = "copy" THEN v ELSE @,
                              !.arg_value = IF Top.arg0 = "value" THEN v ELSE @],
                ![Len(frames) - 1].var = IF Top.arg0 = "ref" THEN v ELSE @]
    /\ returned' = NoReturn
    /\ UNCHANGED <<engine, caches, sightings, last, global, scope, panic>>

\* How a native call ends: the function's value or error, the checks of
\* check_return_value and check_data_size, the string expected of print.
NativeOutcomes(frame) ==
    {"ok", "err"}
    \cup (IF frame.path # "builtin" THEN {"return_too_large"} ELSE {})
    \cup (IF frame.path = "exec_fn_call" /\ frame.is_ref_mut /\ frame.nargs > 0
          THEN {"arg_too_large"} ELSE {})
    \cup (IF frame.path = "exec_fn_call" /\ frame.name = "print"
          THEN {"not_a_string"} ELSE {})

NativeResult(frame, outcome) ==
    CASE outcome = "ok" -> IF frame.name = "print" THEN Ok(UNIT) ELSE Ok(1)
      [] outcome = "err" -> Err("ErrorRuntime")
      [] outcome = "not_a_string" -> Err("ErrorMismatchOutputType")
      [] OTHER -> Err("ErrorDataTooLarge")

\* The native function returns: the rest of exec_native_fn_call (or of the
\* qualified call) and of exec_fn_call.
NativeReturn ==
    /\ ~panic
    /\ frames # << >>
    /\ Top.kind \in {"native", "plugin", "builtin"}
    /\ \E outcome \in NativeOutcomes(Top) :
       \E st \in {Unwind(Top, NativeResult(Top, outcome), global, CurrentCache,
                         scope, frames[Len(frames) - 1].var)} :
            Leave(st)

\* The base case of foo: n == 0 in one program, n <= 1 in the other.
FooBaseCase(frame) ==
    IF frame.foo_base = 0 THEN frame.n = 0 ELSE frame.n <= 1

\* The results a body can end with: anything for arbitrary code; () for
\* decl once hello is declared; for foo, 0 in the base case and otherwise
\* n + foo(n - 1), or the error of foo(n - 1).
BodyResults(frame) ==
    CASE frame.fn = "decl/1" ->
            IF frame.phase = "done" THEN {Ok(UNIT)} ELSE {}
      [] frame.fn = "foo/1" ->
            IF frame.phase = "wait"
            THEN {IF returned.result.ok
                  THEN Ok(frame.n + returned.result.val) ELSE returned.result}
            ELSE IF FooBaseCase(frame) THEN {Ok(0)} ELSE {}
      [] frame.fn = "empty/0" -> {Ok(UNIT)}
      [] frame.fn = "action/1" ->
            IF frame.phase = "done" THEN {Ok(UNIT)} ELSE {}
      [] OTHER -> {Ok(UNIT), Err("ErrorRuntime")}

\* The body of a script function called from a script returns.
ScriptReturn ==
    /\ ~panic
    /\ frames # << >>
    /\ Top.kind = "script" /\ Top.path \in {"exec_fn_call", "qualified"}
    /\ \E result \in BodyResults(Top), keep \in BOOLEAN :
       \E st \in {Unwind(Top, result, global, CurrentCache,
                         call_script_fn_exit(Top, scope, keep),
                         frames[Len(frames) - 1].var)} :
            Leave(st)

\* foo(n) as a top-level statement.
CallFoo ==
    /\ Running
    /\ Top.path = "statements"
    /\ \E n \in FooArgs :
       \E st \in {exec_fn_call(engine, global, CurrentCache, scope, Top.var,
                               FooSite(n), Top.scope, Top.foo_base, TRUE)} :
            Enter(st, "run")

\* fn foo(n) { if .. { 0 } else { n + foo(n - 1) } }: the recursive call.
FooCall ==
    /\ ~panic
    /\ frames # << >>
    /\ Top.fn = "foo/1" /\ Top.phase = "run" /\ ~FooBaseCase(Top)
    /\ \E st \in {exec_fn_call(engine, global, CurrentCache, scope, Top.var,
                               FooSite(Top.n - 1), Top.scope, Top.foo_base,
                               TRUE)} :
            Enter(st, "wait")

\* fn action(x) { this += x; }
AddToThis ==
    /\ ~panic
    /\ frames # << >>
    /\ Top.fn = "action/1" /\ Top.phase = "run" /\ Top.this
    /\ frames' = [frames EXCEPT ![Len(frames)].phase = "done",
                                ![Len(frames)].wrote = TRUE,
                                ![Len(frames) - 1].var =
                                    IF ThisIsCallersValue(Top)
                                    THEN @ + Top.n ELSE @]
    /\ returned' = NoReturn
    /\ UNCHANGED <<engine, caches, sightings, last, global, scope, panic>>

\* fn decl(x) { let hello = x; }
DeclareHello ==
    /\ ~panic
    /\ frames # << >>
    /\ Top.fn = "decl/1" /\ Top.phase = "run"
    /\ scope' = IF Top.scope = "host"
                THEN Append(scope, [name |-> "hello", value |-> Top.n])
                ELSE scope
    /\ frames' = [frames EXCEPT ![Len(frames)].phase = "done"]
    /\ returned' = NoReturn
    /\ UNCHANGED <<engine, caches, sightings, last, global, panic>>

----------------------------------------------------------------------------
(* eval, qualified calls and operators: src/func/call.rs *)

\* What the argument of eval can be.
EvalScripts ==
    {"not_a_string", "empty", "syntax_error", "fn_definition",
     "no_statements", "statements"}

\* GlobalRuntimeState::source().unwrap_or("").
SourceName(g) == IF g.source = << >> THEN "" ELSE g.source[1]

\* ErrorInFunctionCall(name, source, err, pos).
ErrInFunctionCall(fn_name, source, err) ==
    [fn_name |-> fn_name, source |-> source, ok |-> FALSE, val |-> UNIT,
     err |-> "ErrorInFunctionCall", inner |-> err.err]

\* An end of eval that looks at the length of the scope alone.
EvalExitScopeOnly(frame, result, g, cache, sc, var) ==
    Unwind(frame,
           IF result.ok THEN result
           ELSE ErrInFunctionCall("eval", SourceName(g), result),
           IF Len(sc) # frame.orig_scope_len
           THEN [g EXCEPT !.always_search_scope = TRUE] ELSE g,
           cache, sc, var)

\* The end of the eval special form: always_search_scope is set when the
\* length of the scope or the number of imports is not what it was before
\* the argument was evaluated, errors are wrapped with the name eval and
\* the source of the global state, the level guard drops.
EvalExit(frame, result, g, cache, sc, var) ==
    LET scope_changed == \/ Len(sc) # frame.orig_scope_len
                         \/ g.num_imports # frame.before.num_imports
    IN  Unwind(frame,
               IF result.ok THEN result
               ELSE ErrInFunctionCall("eval", SourceName(g), result),
               IF scope_changed
               THEN [g EXCEPT !.always_search_scope = TRUE] ELSE g,
               cache, sc, var)

\* An eval that runs the statements of a text that declares a function.
EvalEnterRunsFnDefinitions(g, cache, sc, var, parent_scope, foo_base, script, track_ok) ==
    LET f0 == [BlankFrame EXCEPT
                  !.path = "eval", !.kind = "eval", !.name = "eval",
                  !.fn = script, !.nargs = 1, !.scope = parent_scope,
                  !.orig_scope_len = Len(sc), !.var = var,
                  !.foo_base = foo_base, !.before = Snapshot(g, sc, var)]
        f1 == [f0 EXCEPT !.level_guard = TRUE]
        g1 == EnterLevel(g)
    IN  IF script = "not_a_string"
        THEN Step(TRUE, f0, Err("ErrorMismatchDataType"), g, cache, sc, var, FALSE)
        ELSE IF ~track_ok
        THEN EvalExit(f1, Err("ErrorTooManyOperations"), g1, cache, sc, var)
        ELSE IF script \in {"empty", "no_statements"}
        THEN EvalExit(f1, Ok(UNIT), g1, cache, sc, var)
        ELSE IF script = "syntax_error"
        THEN EvalExit(f1, Err("ErrorParsing"), g1, cache, sc, var)
        ELSE Step(FALSE, f1, Ok(UNIT), g1, cache, sc, var, FALSE)

\* The eval special form of make_function_call with
\* eval_script_expr_in_place, up to the run of the statements.
EvalEnter(g, cache, sc, var, parent_scope, foo_base, script, track_ok) ==
    LET f0 == [BlankFrame EXCEPT
                  !.path = "eval", !.kind = "eval", !.name = "eval",
                  !.fn = script, !.nargs = 1, !.scope = parent_scope,
                  !.orig_scope_len = Len(sc), !.var = var,
                  !.foo_base = foo_base, !.before = Snapshot(g, sc, var)]
        f1 == [f0 EXCEPT !.level_guard = TRUE]
        g1 == EnterLevel(g)
    IN  IF script = "not_a_string"
        THEN Step(TRUE, f0, Err("ErrorMismatchDataType"), g, cache, sc, var, FALSE)
        ELSE IF ~track_ok
        THEN EvalExit(f1, Err("ErrorTooManyOperations"), g1, cache, sc, var)
        ELSE IF script \in {"empty", "no_statements"}
        THEN EvalExit(f1, Ok(UNIT), g1, cache, sc, var)
        ELSE IF script = "syntax_error"
        THEN EvalExit(f1, Err("ErrorParsing"), g1, cache, sc, var)
        ELSE IF script = "fn_definition"
        THEN EvalExit(f1, Err("WrongFnDefinition"), g1, cache, sc, var)
        ELSE Step(FALSE, f1, Ok(UNIT), g1, cache, sc, var, FALSE)

EvalCall ==
    /\ Running
    /\ Len(frames) < MaxDepth
    /\ \E script \in EvalScripts, track_ok \in BOOLEAN :
       \E st \in {EvalEnter(global, CurrentCache, scope, Top.var, Top.scope,
                            Top.foo_base, script, track_ok)} :
            Enter(st, "run")

\* The text given to eval imports a module at its top level.
ImportModule ==
    /\ Running
    /\ Top.kind = "eval"
    /\ global.num_imports < MaxImports
    /\ global' = [global EXCEPT !.num_imports = @ + 1]
    /\ returned' = NoReturn
    /\ UNCHANGED <<engine, caches, sightings, last, scope, frames, panic>>

\* The statements of the eval end.
EvalReturn ==
    /\ ~panic
    /\ frames # << >>
    /\ Top.kind = "eval"
    /\ \E result \in {Ok(UNIT), Err("ErrorRuntime")} :
       \E st \in {EvalExit(Top, result, global, CurrentCache, scope, Top.var)} :
            Leave(st)

\* Qualified call expressions: imp::sf(x), imp::g(x), imp::g(1), imp::p(x)
\* on a variable and on a constant, imp::g(c) on a constant, imp::nofn(),
\* nomod::g(1).
QualifiedSite(namespace, name, types, is_ref_mut, read_only) ==
    [namespace |-> namespace, name |-> name, types |-> types,
     is_ref_mut |-> is_ref_mut, read_only |-> read_only]

QualifiedSites ==
    {QualifiedSite("imp", "sf", <<1>>, TRUE, FALSE),
     QualifiedSite("imp", "g", <<1>>, TRUE, FALSE),
     QualifiedSite("imp", "g", <<1>>, FALSE, FALSE),
     QualifiedSite("imp", "p", <<1>>, TRUE, FALSE),
     QualifiedSite("imp", "p", <<1>>, TRUE, TRUE),
     QualifiedSite("imp", "g", <<1>>, TRUE, TRUE),
     QualifiedSite("imp", "nofn", << >>, FALSE, FALSE),
     QualifiedSite("nomod", "g", <<1>>, FALSE, FALSE)}

\* search_imports: the module imported under the name.
search_imports(e, namespace) ==
    IF \E i \in 1..Len(e.imports) : e.imports[i].id = namespace
    THEN <<e.imports[CHOOSE i \in 1..Len(e.imports) :
                        e.imports[i].id = namespace]>>
    ELSE << >>

\* A lookup that tries the typed hash before the base hash.
QualifiedLookupTypedFirst(module, hash, types) ==
    LET hits == {b \in 1..(Pow2(Min(Len(types), MAX_DYNAMIC_PARAMETERS)) - 1) :
                    calc_fn_hash_full(hash, PermutedTypes(types, b))
                        \in DOMAIN module.fns}
    IN  IF calc_fn_hash_full(hash, types) \in DOMAIN module.fns
        THEN <<module.fns[calc_fn_hash_full(hash, types)]>>
        ELSE IF hash \in DOMAIN module.fns THEN <<module.fns[hash]>>
        ELSE IF types # << >> /\ hits # {}
        THEN <<module.fns[calc_fn_hash_full(hash,
                    PermutedTypes(types, CHOOSE b \in hits :
                                            \A c \in hits : b <= c))]>>
        ELSE << >>

\* The function of the module: by the base hash, then by the typed hash,
\* then by the first wildcard permutation that hits.
QualifiedLookup(module, hash, types) ==
    LET hits == {b \in 1..(Pow2(Min(Len(types), MAX_DYNAMIC_PARAMETERS)) - 1) :
                    calc_fn_hash_full(hash, PermutedTypes(types, b))
                        \in DOMAIN module.fns}
    IN  IF hash \in DOMAIN module.fns THEN <<module.fns[hash]>>
        ELSE IF calc_fn_hash_full(hash, types) \in DOMAIN module.fns
        THEN <<module.fns[calc_fn_hash_full(hash, types)]>>
        ELSE IF types # << >> /\ hits # {}
        THEN <<module.fns[calc_fn_hash_full(hash,
                    PermutedTypes(types, CHOOSE b \in hits :
                                            \A c \in hits : b <= c))]>>
        ELSE << >>

\* Engine::gen_fn_call_signature: the name and the types of the arguments.
RECURSIVE JoinTypeNames(_)
JoinTypeNames(types) ==
    IF types = << >> THEN ""
    ELSE (IF types[1] = 1 THEN "i64" ELSE "string")
         \o (IF Len(types) = 1 THEN "" ELSE ", ")
         \o JoinTypeNames(Tail(types))
gen_fn_call_signature(fn_name, types) ==
    fn_name \o " (" \o JoinTypeNames(types) \o ")"

\* ErrorFunctionNotFound of a qualified call: the signature follows the
\* namespace and the double colon.
ErrQualifiedFunctionNotFound(namespace, fn_name, types) ==
    [name |-> namespace \o "::" \o gen_fn_call_signature(fn_name, types),
     ok |-> FALSE, val |-> UNIT, err |-> "ErrorFunctionNotFound"]

\* A qualified call that never clones its first argument.
CloneFirstNever(func, borrowed) == FALSE

\* if !func.map_or(true, CallableFunction::is_method): the first argument
\* borrowed from a variable is replaced by a clone when a function was found
\* that is not a method.
CloneFirst(func, borrowed) ==
    func # << >> /\ ~is_method(func[1]) /\ borrowed

\* make_qualified_function_call, from the search of the namespace up to the
\* run of the function.
make_qualified_function_call(e, g, cache, sc, var, site, foo_base, track_ok) ==
    LET nargs == Len(site.types)
        hash == calc_qualified_fn_hash(<<site.namespace>>, site.name, nargs)
        module == search_imports(e, site.namespace)
        func == QualifiedLookup(module[1], hash, site.types)
        cloned == CloneFirst(func, site.is_ref_mut)
        f0 == [BlankFrame EXCEPT
                  !.path = "qualified", !.name = site.name,
                  !.is_ref_mut = site.is_ref_mut, !.nargs = nargs,
                  !.read_only = site.read_only,
                  !.arg0 = IF nargs = 0 THEN "none"
                           ELSE IF site.is_ref_mut THEN "ref" ELSE "value",
                  !.arg_value = IF nargs = 0 THEN UNIT ELSE var,
                  !.foo_base = foo_base, !.before = Snapshot(g, sc, var)]
        f1 == [f0 EXCEPT !.arg0 = IF cloned THEN "value" ELSE @,
                         !.level_guard = TRUE]
        g1 == EnterLevel(g)
    IN  IF module = << >>
        THEN Step(TRUE, f0, Err("ErrorModuleNotFound"), g, cache, sc, var, FALSE)
        ELSE IF hash \notin DOMAIN module[1].fns /\ ~track_ok
        THEN Step(TRUE, f0, Err("ErrorTooManyOperations"), g, cache, sc, var, FALSE)
        ELSE IF func = << >>
        THEN Unwind(f1, ErrQualifiedFunctionNotFound(site.namespace, site.name,
                                                     site.types),
                    g1, cache, sc, var)
        ELSE IF is_script(func[1])
        THEN LET g2 == ReplaceSource(g1, SourceOf(module[1].id))
                 f2 == [f1 EXCEPT !.kind = "script", !.fn = func[1].tag,
                                  !.source = SourceOf(module[1].id),
                                  !.source_guard = <<g1.source>>]
                 run == call_script_fn(f2, g2, sc, var, TRUE)
             IN  IF run.overflow
                 THEN Unwind(f2, Err("ErrorStackOverflow"), g2, cache, sc, var)
                 ELSE Step(FALSE, run.frame, Ok(UNIT), g2, cache, run.scope,
                           run.var, FALSE)
        ELSE LET f2 == [f1 EXCEPT !.kind = func[1].kind, !.fn = func[1].tag,
                                  !.pure = is_pure(func[1]),
                                  !.source = SourceOf(module[1].id)]
             IN  IF NonPureMethodCallOnConstant(func[1], nargs,
                                                site.read_only)
                 THEN Unwind(f2, Err("ErrorNonPureMethodCallOnConstant"), g1,
                             cache, sc, var)
                 ELSE Step(FALSE, f2, Ok(UNIT), g1, cache, sc, var, FALSE)

QualifiedCall ==
    /\ Running
    /\ Len(frames) < MaxDepth
    /\ \E site \in QualifiedSites, track_ok \in BOOLEAN :
       \E st \in {make_qualified_function_call(engine, global, CurrentCache,
                        scope, Top.var, site, Top.foo_base, track_ok)} :
            Enter(st, "run")

\* x + y as a call expression with its operator token.
OperatorSite(types) ==
    [CallSite("+", types, FALSE, FALSE) EXCEPT !.native_only = TRUE,
                                               !.op_token = <<"Plus">>]

\* The operand types of the operator calls of a script: those of the
\* resolver's calls and string + string.
OperatorOperands == OperandTypes \cup {<<2, 2>>}

\* The operands evaluated so far, each with its index and its type.
Operands(types, n) == [i \in 1..n |-> <<i, types[i]>>]

\* Fast operators are never taken.
OperatorEnterSlow(e, g, cache, sc, var, types, oks, foo_base, track_ok) ==
    exec_fn_call(e, g, cache, sc, var, OperatorSite(types), "own", foo_base,
                 track_ok)

\* eval_fn_call_expr on an operator. Under fast operators the operands are
\* evaluated by value, the left one first, and the built-in, if there is
\* one for their types, is called at once; the call goes through
\* exec_fn_call otherwise. oks tells which operand expressions evaluate
\* without an error.
OperatorEnter(e, g, cache, sc, var, types, oks, foo_base, track_ok) ==
    LET f0 == [BlankFrame EXCEPT
                  !.path = "operator", !.name = "+", !.nargs = 2,
                  !.foo_base = foo_base, !.before = Snapshot(g, sc, var)]
    IN  IF ~e.fast_operators
        THEN exec_fn_call(e, g, cache, sc, var, OperatorSite(types), "own",
                          foo_base, track_ok)
        ELSE IF ~oks[1]
        THEN Step(TRUE, [f0 EXCEPT !.operands = Operands(types, 1)],
                  Err("ErrorVariableNotFound"), g, cache, sc, var, FALSE)
        ELSE IF ~oks[2]
        THEN Step(TRUE, [f0 EXCEPT !.operands = Operands(types, 2)],
                  Err("ErrorVariableNotFound"), g, cache, sc, var, FALSE)
        ELSE IF get_builtin_binary_op_fn("Plus", types[1], types[2]) # << >>
        THEN Step(FALSE,
                  [f0 EXCEPT
                      !.path = "builtin", !.kind = "builtin",
                      !.fn = "builtin +", !.pure = TRUE,
                      !.arg0 = "value", !.arg_value = var,
                      !.level_guard = TRUE,
                      !.operands = Operands(types, 2)],
                  Ok(UNIT), EnterLevel(g), cache, sc, var, FALSE)
        ELSE LET st == exec_fn_call(e, g, cache, sc, var, OperatorSite(types),
                                    "own", foo_base, track_ok)
             IN  [st EXCEPT !.frame.operands = Operands(types, 2)]

\* An operator expression of the running code. Without fast operators the
\* operands are evaluated by make_function_call.
OperatorCall ==
    /\ Running
    /\ Len(frames) < MaxDepth
    /\ \E types \in OperatorOperands, track_ok \in BOOLEAN,
          oks \in [1..2 -> BOOLEAN] :
        /\ ~engine.fast_operators => oks = <<TRUE, TRUE>>
        /\ \E st \in {OperatorEnter(engine, global, CurrentCache, scope,
                                    Top.var, types, oks, Top.foo_base,
                                    track_ok)} :
                EnterKeeping(st, "run", st.frame.path = "exec_fn_call")

----------------------------------------------------------------------------
(* Engine::call_fn_raw and Engine::_call_fn: src/api/call_fn.rs *)

\* mem::replace(&mut global.embedded_module_resolver, ast.resolver().cloned())
ReplaceResolver(g, resolver) == [g EXCEPT !.embedded_module_resolver = resolver]

\* RestoreOnDrop::new(global, |g| g.embedded_module_resolver = orig), when
\* it drops
RestoreResolver(g, orig) == [g EXCEPT !.embedded_module_resolver = orig]

\* Statements whose variables are never rewound.
NoRewindAfterStatements(sc, rewind_scope, orig_scope_len) == sc

\* if rewind_scope { scope.rewind(orig_scope_len) } after the statements
RewindAfterStatements(sc, rewind_scope, orig_scope_len) ==
    IF rewind_scope THEN rewind(sc, orig_scope_len) ELSE sc

\* A lookup by the name alone, whatever the number of parameters.
GetScriptFnOfAnyArity(lib, name, nargs) ==
    LET arities == {n \in 0..MaxArgs : calc_fn_hash(name, n) \in DOMAIN lib.fns}
    IN  IF arities = {} THEN << >>
        ELSE <<lib.fns[calc_fn_hash(name, CHOOSE n \in arities : TRUE)]>>

\* ast.shared_lib().get_script_fn(name, args.len())
get_script_fn(lib, name, nargs) ==
    IF calc_fn_hash(name, nargs) \in DOMAIN lib.fns
    THEN <<lib.fns[calc_fn_hash(name, nargs)]>> ELSE << >>

\* What the host calls: f(42) with and without a `this` value, decl(42),
\* nofn(42), f with a locked shared argument, empty(), f() with no
\* argument, the registered native g(42), nofn with a locked argument,
\* foo(2), action(41) with a `this` value.
HostCall(name, nargs, has_this, locked) ==
    [name |-> name, nargs |-> nargs, arg |-> 42, has_this |-> has_this,
     locked |-> locked]

HostCalls ==
    {HostCall("f", 1, FALSE, {}), HostCall("f", 1, TRUE, {}),
     HostCall("decl", 1, FALSE, {}), HostCall("nofn", 1, FALSE, {}),
     HostCall("f", 1, FALSE, {1}), HostCall("empty", 0, FALSE, {}),
     HostCall("f", 0, FALSE, {}), HostCall("g", 1, FALSE, {}),
     HostCall("nofn", 1, FALSE, {1}),
     [HostCall("foo", 1, FALSE, {}) EXCEPT !.arg = 2],
     [HostCall("action", 1, TRUE, {}) EXCEPT !.arg = 41]}

\* Dynamic::type_name of the values of the model.
type_name(v) == IF v = UNIT THEN "()" ELSE "int"

\* ErrorMismatchOutputType(expected, actual)
ErrMismatchOutputType(expected, actual) ==
    [ok |-> FALSE, val |-> UNIT, err |-> "ErrorMismatchOutputType",
     expected |-> expected, actual |-> actual]

\* Dynamic::try_cast::<T>() of a value, or the mismatch of the two names.
try_cast(T, v) ==
    IF type_name(v) = T THEN Ok(v) ELSE ErrMismatchOutputType(T, type_name(v))

\* A typed entry that casts whatever type is requested.
CallFnCastsAlways(T, result) ==
    IF ~result.ok \/ T = "raw" THEN result ELSE try_cast(T, result.val)

\* Engine::call_fn::<T> on the result of call_fn_raw: an error is passed on,
\* Dynamic gets the raw value, () gets (), any other type gets the cast.
\* The type "raw" stands for a direct call of call_fn_raw.
call_fn(T, result) ==
    IF ~result.ok \/ T = "raw" THEN result
    ELSE IF T = "Dynamic" THEN Ok(result.val)
    ELSE IF T = "()" THEN Ok(UNIT)
    ELSE try_cast(T, result.val)

\* The return types the host requests through call_fn.
ReturnTypes == {"Dynamic", "()", "int"}

\* The frame of _call_fn itself; its phase tells how far _call_fn has come:
\* the statements, the lookup of the function, the body of the function.
HostFrame(g, sc, program, rewind_scope, call, want) ==
    [BlankFrame EXCEPT
        !.path = "host", !.kind = "call_fn", !.name = call.name,
        !.nargs = call.nargs, !.arg0 = IF call.nargs = 0 THEN "none" ELSE "value",
        !.arg_value = IF call.nargs = 0 THEN UNIT ELSE call.arg,
        !.slots = [i \in 1..call.nargs |-> call.arg],
        !.this = call.has_this, !.locked = call.locked,
        !.rewind_scope = rewind_scope, !.orig_scope_len = Len(sc),
        !.resolver_guard = <<g.embedded_module_resolver>>,
        !.foo_base = program.foo_base, !.want = want,
        !.before = Snapshot(g, sc, 1)]

\* Leaving _call_fn: the resolver guard drops.
HostUnwind(host, result, g, cache, sc) ==
    Step(TRUE, host, result, RestoreResolver(g, host.resolver_guard[1]),
         cache, sc, host.var, FALSE)

\* The second half of _call_fn: the data-race check, the lookup of the
\* script function, and call_script_fn up to the run of the body.
CallNamedFunction(e, host, g, cache, sc) ==
    LET fn_def == get_script_fn(e.lib[1], host.name, host.nargs)
        f0 == [BlankFrame EXCEPT
                  !.path = "call_fn", !.kind = "script", !.name = host.name,
                  !.fn = IF fn_def = << >> THEN "" ELSE fn_def[1].tag,
                  !.nargs = host.nargs, !.arg0 = host.arg0,
                  !.arg_value = host.arg_value,
                  !.this = FALSE, !.scope = "host",
                  !.foo_base = host.foo_base,
                  !.before = Snapshot(g, sc, host.var)]
        run == call_script_fn(f0, g, sc, host.var, host.rewind_scope)
        race == ensure_no_data_race(host.name,
                                    LockedArgs(host.locked, host.nargs),
                                    FALSE)
    IN  IF ~race.ok
        THEN HostUnwind(host, race, g, cache, sc)
        ELSE IF fn_def = << >>
        THEN HostUnwind(host, Err("ErrorFunctionNotFound"), g, cache, sc)
        ELSE IF run.overflow
        THEN HostUnwind(host, Err("ErrorStackOverflow"), g, cache, sc)
        ELSE Step(FALSE, [run.frame EXCEPT !.this = host.this], Ok(UNIT), g,
                  cache, run.scope, host.var, FALSE)

\* The effect of _call_fn being over, or of its function body starting.
\* The GlobalRuntimeState and the Caches of call_fn_raw end with it. The
\* host's argument slots (slots) are what call_script_fn has left of them.
HostStep(host, st) ==
    /\ scope' = st.scope
    /\ panic' = st.panic
    /\ IF st.done
       THEN /\ frames' = << >>
            /\ global' = NewGlobal
            /\ caches' = << >>
            /\ returned' = Returned([host EXCEPT
                                        !.calls = 0,
                                        !.typed = call_fn(host.want, st.result)],
                                    st.result,
                                    Snapshot(st.global, st.scope, st.var))
       ELSE /\ frames' = <<[host EXCEPT
                                !.var = st.var, !.phase = "body",
                                !.slots = [i \in DOMAIN @ |-> st.frame.arg_value]],
                           st.frame>>
            /\ global' = st.global
            /\ caches' = caches
            /\ returned' = NoReturn

\* The scopes the host calls with: empty, or holding foo = 42.
HostScopes == {<< >>, <<[name |-> "foo", value |-> 42]>>}

\* What the host chooses for one call of call_fn_raw.
HostRun(program, eval_ast, rewind_scope, call, sc, want) ==
    [program |-> program, eval_ast |-> eval_ast, rewind_scope |-> rewind_scope,
     call |-> call, scope |-> sc, want |-> want]

\* call_fn_raw with every choice of its options, and call_fn::<T>, which is
\* call_fn_raw(scope, ast, true, true, name, None, args) and the cast, on an
\* empty scope.
HostRuns ==
    {HostRun(program, eval_ast, rewind_scope, call, sc, "raw") :
        program \in Programs, eval_ast \in BOOLEAN, rewind_scope \in BOOLEAN,
        call \in HostCalls, sc \in HostScopes}
    \cup {HostRun(program, TRUE, TRUE, call, << >>, T) :
            program \in {p \in Programs : p.foo_base = 0},
            call \in {c \in HostCalls : ~c.has_this}, T \in ReturnTypes}

\* call_fn_raw on a scope of the host: a new GlobalRuntimeState and new
\* Caches, the resolver, then the statements or the function.
call_fn_raw(run) ==
    LET statements == run.eval_ast /\ run.program.statements
        host == [HostFrame(NewGlobal, run.scope, run.program,
                           run.rewind_scope, run.call, run.want)
                    EXCEPT !.phase = IF statements THEN "statements"
                                     ELSE "lookup"]
        g1 == ReplaceResolver(NewGlobal, run.program.resolver)
    IN  /\ ~panic
        /\ frames = << >>
        /\ IF statements
           THEN /\ frames' = <<host,
                               [BlankFrame EXCEPT
                                    !.path = "statements", !.kind = "stmts",
                                    !.scope = "host",
                                    !.foo_base = run.program.foo_base,
                                    !.before = Snapshot(g1, run.scope, 1)]>>
                /\ global' = g1
                /\ caches' = << >>
                /\ scope' = run.scope
                /\ returned' = NoReturn
                /\ UNCHANGED panic
           ELSE \E st \in {CallNamedFunction(engine, host, g1, EmptyCache,
                                             run.scope)} :
                    HostStep(host, st)
        /\ UNCHANGED <<engine, sightings, last>>

\* The host calls a function of a program.
CallFn == \E run \in HostRuns : call_fn_raw(run)

\* The host runs the statements of a program and then calls its f(42) with
\* a `this` value, on an empty scope.
RunScript ==
    call_fn_raw(HostRun([statements |-> TRUE, resolver |-> <<"resolver">>,
                         foo_base |-> 0],
                        TRUE, TRUE, HostCall("f", 1, TRUE, {}), << >>, "raw"))

\* The top-level statements end: the scope is rewound, then the function is
\* called unless the statements failed.
StatementsReturn ==
    /\ ~panic
    /\ Len(frames) = 2
    /\ Top.path = "statements"
    /\ \E result \in {Ok(UNIT), Err("ErrorRuntime")} :
        LET host == [frames[1] EXCEPT !.var = Top.var,
                                      !.phase = IF result.ok THEN "lookup"
                                                ELSE @]
            sc1 == RewindAfterStatements(scope, host.rewind_scope,
                                         host.orig_scope_len)
        IN  \E st \in {IF result.ok
                       THEN CallNamedFunction(engine, host, global,
                                              CurrentCache, sc1)
                       ELSE HostUnwind(host, result, global, CurrentCache, sc1)} :
                HostStep(host, st)
    /\ UNCHANGED <<engine, sightings, last>>

\* The body of the function called by _call_fn returns.
CallFnReturn ==
    /\ ~panic
    /\ Len(frames) = 2
    /\ Top.path = "call_fn"
    /\ \E result \in BodyResults(Top), keep \in BOOLEAN :
       \E host \in {[frames[1] EXCEPT !.wrote = Top.wrote]} :
       \E st \in {HostUnwind(host, result, global, CurrentCache,
                             call_script_fn_exit(Top, scope, keep))} :
            HostStep(host, st)
    /\ UNCHANGED <<engine, sightings, last>>

Init ==
    /\ engine \in {CallEngine(fast) : fast \in BOOLEAN}
    /\ caches = << >>
    /\ sightings = << >>
    /\ last = NoCall
    /\ global = NewGlobal
    /\ scope = << >>
    /\ frames = << >>
    /\ returned = NoReturn
    /\ panic = FALSE

\* The host entry point on every program, with bodies that declare
\* variables, write `this` and recurse.
Next ==
    \/ CallFn
    \/ StatementsReturn
    \/ CallFnReturn
    \/ DeclareVar
    \/ DeclareHello
    \/ WriteThis
    \/ AddToThis
    \/ CallFoo
    \/ FooCall
    \/ ScriptReturn

Spec == Init /\ [][Next]_vars

\* One run of a script whose statements and functions make every kind of
\* call.
NextCalls ==
    \/ RunScript
    \/ StatementsReturn
    \/ CallFnReturn
    \/ MakeFunctionCall
    \/ EvalCall
    \/ ImportModule
    \/ EvalReturn
    \/ QualifiedCall
    \/ OperatorCall
    \/ NativeWrite
    \/ NativeReturn
    \/ ScriptReturn
    \/ WriteThis
    \/ WriteParam
    \/ DeclareVar

SpecCalls == Init /\ [][NextCalls]_vars

\* A script whose calls are function calls on variables.
NextVariableCalls ==
    \/ RunScript
    \/ StatementsReturn
    \/ CallFnReturn
    \/ CallOnVariable
    \/ NativeWrite
    \/ NativeReturn
    \/ ScriptReturn
    \/ WriteParam

SpecVariableCalls == Init /\ [][NextVariableCalls]_vars

\* A script whose calls bear the names of keywords.
NextKeywords ==
    \/ RunScript
    \/ StatementsReturn
    \/ CallFnReturn
    \/ KeywordCall
    \/ NativeWrite
    \/ NativeReturn

SpecKeywords == Init /\ [][NextKeywords]_vars

----------------------------------------------------------------------------
(* Function pointers: src/types/fn_ptr.rs *)

\* The longest list of curried arguments.
MaxCurry == 2

\* A name is the sequence of its characters.
Letters == {"a", "f", "n", "o"}
Digits == {"1"}

\* engine::FN_ANONYMOUS, the prefix "anon$".
FN_ANONYMOUS == <<"a", "n", "o", "n", "$">>

\* tokenizer::is_valid_identifier: underscores, then a letter, then letters,
\* digits and underscores.
RECURSIVE ValidIdentifierFrom(_, _, _)
ValidIdentifierFrom(name, i, first_alphabetic) ==
    IF i > Len(name) THEN first_alphabetic
    ELSE IF name[i] = "_" THEN ValidIdentifierFrom(name, i + 1, first_alphabetic)
    ELSE IF name[i] \in Letters THEN ValidIdentifierFrom(name, i + 1, TRUE)
    ELSE IF ~first_alphabetic THEN FALSE
    ELSE IF name[i] \in Digits THEN ValidIdentifierFrom(name, i + 1, TRUE)
    ELSE FALSE

is_valid_identifier(name) == ValidIdentifierFrom(name, 1, FALSE)

\* tokenizer::is_valid_function_name.
is_valid_function_name(name) == is_valid_identifier(name)

\* is_anonymous_fn: name.starts_with(FN_ANONYMOUS).
is_anonymous_fn(name) ==
    /\ Len(name) >= Len(FN_ANONYMOUS)
    /\ SubSeq(name, 1, Len(FN_ANONYMOUS)) = FN_ANONYMOUS

\* The names given to the constructors: f, _f1, fa, a lone underscore, 1f,
\* the operator +, the empty name, f$, anon$1 and anon$.
FnNames ==
    {<<"f">>, <<"_", "f", "1">>, <<"f", "a">>, <<"_">>, <<"1", "f">>, <<"+">>,
     << >>, <<"f", "$">>, FN_ANONYMOUS \o <<"1">>, FN_ANONYMOUS}

\* Position::NONE and the positions of argument expressions.
Position_NONE == "none"
Positions == {"1:4", "2:9"}

\* FnPtr::new_unchecked.
new_unchecked(name, curry) == [name |-> name, curry |-> curry]

\* ErrorFunctionNotFound(name, position).
ErrFunctionNotFound(name, pos) ==
    [name |-> name, ok |-> FALSE, val |-> UNIT,
     err |-> "ErrorFunctionNotFound", pos |-> pos]

\* A conversion that takes the anonymous names as well.
TryFromAcceptsAnonymous(value) ==
    IF is_valid_function_name(value) \/ is_anonymous_fn(value)
    THEN Ok(new_unchecked(value, << >>))
    ELSE ErrFunctionNotFound(value, Position_NONE)

\* TryFrom<ImmutableString> for FnPtr.
try_from(value) ==
    IF is_valid_function_name(value)
    THEN Ok(new_unchecked(value, << >>))
    ELSE ErrFunctionNotFound(value, Position_NONE)

\* FnPtr::new: name.into().try_into().
FnPtr_new(name) == try_from(name)

\* FnPtr::add_curry: curry.push(value).
add_curry(ptr, value) == [ptr EXCEPT !.curry = Append(@, value)]

\* FnPtr::set_curry: the curried arguments are replaced.
set_curry(ptr, values) == [ptr EXCEPT !.curry = values]

\* EvalAltResult::fill_position: the position is set where there is none.
fill_position(err, pos) ==
    IF err.pos = Position_NONE THEN [err EXCEPT !.pos = pos] ELSE err

\* The value of an argument expression: a string or an integer.
StringValue(s) == [type |-> "string", s |-> s]
IntValue == [type |-> "i64", s |-> << >>]
ArgValues == {StringValue(s) : s \in FnNames} \cup {IntValue}

\* The error of make_type_mismatch_err at the position of the argument.
ErrMismatchDataType(actual, pos) ==
    [name |-> << >>, ok |-> FALSE, val |-> UNIT,
     err |-> "ErrorMismatchDataType", pos |-> pos]

\* Fn(s) whose error keeps the position the conversion gave it.
FnKeywordKeepsPosition(arg_value, arg_pos, track_ok) ==
    IF ~track_ok
    THEN [ErrFunctionNotFound(<< >>, arg_pos) EXCEPT !.err = "ErrorTooManyOperations"]
    ELSE IF arg_value.type # "string"
    THEN ErrMismatchDataType(arg_value.type, arg_pos)
    ELSE try_from(arg_value.s)

\* make_function_call, KEYWORD_FN_PTR with one argument: the argument is
\* evaluated (get_arg_value counts an operation), converted to a string,
\* then to a function pointer; an error without position gets the
\* argument's.
FnKeyword(arg_value, arg_pos, track_ok) ==
    IF ~track_ok
    THEN [ErrFunctionNotFound(<< >>, arg_pos) EXCEPT !.err = "ErrorTooManyOperations"]
    ELSE IF arg_value.type # "string"
    THEN ErrMismatchDataType(arg_value.type, arg_pos)
    ELSE LET r == try_from(arg_value.s)
         IN  IF r.ok THEN r ELSE fill_position(r, arg_pos)

\* make_function_call, KEYWORD_FN_PTR_CURRY: the pointer's data is taken,
\* the values of the further arguments are pushed, and a pointer is built
\* of the name and the list without a check.
CurryKeywordPrepends(ptr, values) == new_unchecked(ptr.name, values \o ptr.curry)

CurryKeyword(ptr, values) == new_unchecked(ptr.name, ptr.curry \o values)

\* make_method_call, KEYWORD_FN_PTR_CURRY on a function pointer: a clone
\* when there is no argument, else a pointer built of the name and of the
\* curried values followed by the arguments, which are taken.
CurryMethod(ptr, call_args) ==
    IF call_args = << >> THEN ptr
    ELSE new_unchecked(ptr.name, ptr.curry \o call_args)

\* A function name as the string that is hashed.
RECURSIVE FnNameString(_)
FnNameString(name) ==
    IF name = << >> THEN "" ELSE name[1] \o FnNameString(Tail(name))

\* FnCallHashes::from_native, From<u64> and from_all; no script hash is 0.
from_native(hash) == [script |-> 0, native |-> hash]
from_hash(hash) == [script |-> hash, native |-> hash]
from_all(script, native) == [script |-> script, native |-> native]

\* A value of type FnPtr as an argument.
FnPtrValue(ptr) == [type |-> "FnPtr", s |-> ptr]

\* The hashes of a call redirected to a pointer's function, without an
\* object: native-only for a name that is neither anonymous nor valid.
PtrCallHashes(fn_name, args_len) ==
    IF ~is_anonymous_fn(fn_name) /\ ~is_valid_function_name(fn_name)
    THEN from_native(calc_fn_hash(FnNameString(fn_name), args_len))
    ELSE from_hash(calc_fn_hash(FnNameString(fn_name), args_len))

\* The same with an object in front of the arguments.
PtrMethodHashes(fn_name, args_len) ==
    IF ~is_anonymous_fn(fn_name) /\ ~is_valid_function_name(fn_name)
    THEN from_native(calc_fn_hash(FnNameString(fn_name), args_len + 1))
    ELSE from_all(calc_fn_hash(FnNameString(fn_name), args_len),
                  calc_fn_hash(FnNameString(fn_name), args_len + 1))

\* What exec_fn_call is given: the name, the hashes, the argument slots and
\* the two flags.
ExecFnCall(fn_name, hashes, args, is_ref_mut, is_method_call) ==
    Ok([fn_name |-> fn_name, args |-> args, is_ref_mut |-> is_ref_mut,
        is_method_call |-> is_method_call, hashes |-> hashes])

\* A pointer call that puts the arguments before the curried values.
CallOnFnPtrArgsFirst(fn_ptr, call_args) ==
    ExecFnCall(fn_ptr.name,
               PtrCallHashes(fn_ptr.name, Len(call_args) + Len(fn_ptr.curry)),
               call_args \o fn_ptr.curry, FALSE, FALSE)

\* make_method_call, KEYWORD_FN_PTR_CALL on a function pointer: fp.call(..)
\* becomes name(curry.., args..) in function-call style.
CallOnFnPtr(fn_ptr, call_args) ==
    ExecFnCall(fn_ptr.name,
               PtrCallHashes(fn_ptr.name, Len(call_args) + Len(fn_ptr.curry)),
               fn_ptr.curry \o call_args, FALSE, FALSE)

\* make_method_call, KEYWORD_FN_PTR_CALL on another value: obj.call(fp, ..)
\* takes the pointer out of the first argument and becomes
\* name(obj, curry.., args..) in method-call style. first is the first
\* argument if there is one.
CallOnObject(target, is_ref_mut, first, first_arg_pos, fn_call_pos, call_args) ==
    IF first = << >> THEN ErrMismatchDataType("i64", fn_call_pos)
    ELSE IF first[1].type # "FnPtr"
    THEN ErrMismatchDataType(first[1].type, first_arg_pos)
    ELSE LET fn_ptr == first[1].s
         IN  ExecFnCall(fn_ptr.name,
                        PtrMethodHashes(fn_ptr.name,
                                        Len(call_args) + Len(fn_ptr.curry)),
                        <<target>> \o fn_ptr.curry \o call_args,
                        is_ref_mut, TRUE)

\* make_method_call, any other name on an object map: a property of that
\* name holding a pointer redirects the call, else the call keeps its name
\* and hashes.
CallOnMapField(target, is_ref_mut, fn_name, hash, field, call_args) ==
    IF field = << >>
    THEN ExecFnCall(fn_name, hash, <<target>> \o call_args, is_ref_mut, TRUE)
    ELSE LET fn_ptr == field[1]
             args == IF fn_ptr.curry # << >> THEN fn_ptr.curry \o call_args
                     ELSE call_args
         IN  ExecFnCall(fn_ptr.name, PtrMethodHashes(fn_ptr.name, Len(args)),
                        <<target>> \o args, is_ref_mut, TRUE)

\* make_function_call, KEYWORD_FN_PTR_CALL with at least one argument: the
\* first argument must be a pointer, its data is taken, the arguments are
\* shifted, and the call goes on as name(curry.., args..). by_ref: the first
\* remaining argument is a variable that is neither shared nor a temporary.
CallKeyword(arg_value, arg_pos, call_args, by_ref) ==
    IF arg_value.type # "FnPtr" THEN ErrMismatchDataType(arg_value.type, arg_pos)
    ELSE LET fn_ptr == arg_value.s
             curry == fn_ptr.curry
             total_args == Len(call_args)
         IN  ExecFnCall(fn_ptr.name,
                        PtrCallHashes(fn_ptr.name, total_args + Len(curry)),
                        curry \o call_args,
                        curry = << >> /\ total_args > 0 /\ by_ref, FALSE)

\* NativeCallContext::call_fn_raw: the hashes are those of the name and of
\* the number of slots, the script hash without the object of a method call.
NativeCallContext_call_fn_raw(fn_name, is_method_call, is_ref_mut, args) ==
    ExecFnCall(fn_name,
               IF is_method_call
               THEN from_all(calc_fn_hash(FnNameString(fn_name), Len(args) - 1),
                             calc_fn_hash(FnNameString(fn_name), Len(args)))
               ELSE from_hash(calc_fn_hash(FnNameString(fn_name), Len(args))),
               args, is_ref_mut, is_method_call)

\* FnPtr::call_raw: with curried values the caller's slots are taken and
\* follow the clones of the curried values; this_ptr goes in front, and the
\* call is a method call exactly when there is one.
call_raw(fn_ptr, this_ptr, arg_values) ==
    LET args_data == IF fn_ptr.curry # << >> THEN fn_ptr.curry \o arg_values
                     ELSE arg_values
        with_this == this_ptr # << >>
    IN  NativeCallContext_call_fn_raw(fn_ptr.name, with_this, with_this,
                                      this_ptr \o args_data)

\* The lists of values that are curried at once.
CurryLists(max) == UNION {[1..n -> Values] : n \in 0..max}

\* An operation on the function pointer held in a variable of the scope,
\* with the pointer before it.
FnPtrOp(op, arg, pos, result) ==
    [before |-> scope, result |-> result, arg |-> arg, pos |-> pos, op |-> op]

InitFnPtr ==
    /\ engine = SourceEngine({}, {}, {}, {})
    /\ caches = << >>
    /\ sightings = << >>
    /\ last = [before |-> << >>, result |-> Ok(UNIT), arg |-> << >>,
               pos |-> Position_NONE, op |-> "none"]
    /\ global = NewGlobal
    /\ scope = << >>
    /\ frames = << >>
    /\ returned = NoReturn
    /\ panic = FALSE

\* The outcome of a constructor: the pointer is stored when there is one.
StorePtr(op, arg, pos, result) ==
    /\ last' = FnPtrOp(op, arg, pos, result)
    /\ scope' = IF result.ok THEN <<result.val>> ELSE scope
    /\ UNCHANGED <<engine, caches, sightings, global, frames, returned, panic>>

\* The host calls FnPtr::new.
NewFnPtr ==
    \E name \in FnNames :
        StorePtr("new", name, Position_NONE, FnPtr_new(name))

\* The script evaluates Fn(arg).
FnCall ==
    \E arg_value \in ArgValues, arg_pos \in Positions, track_ok \in BOOLEAN :
        StorePtr("Fn", arg_value.s, arg_pos,
                 FnKeyword(arg_value, arg_pos, track_ok))

\* The script evaluates a closure: the parser names anonymous functions
\* with the anonymous prefix and builds their pointers unchecked.
AnonymousFn ==
    \E name \in {n \in FnNames : is_anonymous_fn(n) /\ n # FN_ANONYMOUS} :
        StorePtr("closure", name, Position_NONE,
                 Ok(new_unchecked(name, << >>)))

AddCurry ==
    /\ scope # << >>
    /\ Len(scope[1].curry) < MaxCurry
    /\ \E value \in Values :
        StorePtr("add_curry", << >>, Position_NONE,
                 Ok(add_curry(scope[1], value)))

SetCurry ==
    /\ scope # << >>
    /\ \E values \in CurryLists(MaxCurry) :
        StorePtr("set_curry", << >>, Position_NONE,
                 Ok(set_curry(scope[1], values)))

\* The script evaluates curry(ptr, values...) with at least one value.
CurryCall ==
    /\ scope # << >>
    /\ \E values \in CurryLists(MaxCurry - Len(scope[1].curry)) \ {<< >>} :
        StorePtr("curry", values, Position_NONE,
                 Ok(CurryKeyword(scope[1], values)))

\* The script evaluates ptr.curry(values...).
CurryMethodCall ==
    /\ scope # << >>
    /\ \E values \in CurryLists(MaxCurry - Len(scope[1].curry)) :
        StorePtr("curry_method", values, Position_NONE,
                 Ok(CurryMethod(scope[1], values)))

\* A call of the pointer held in the scope: the object and the arguments
\* it is called with, and what is handed to exec_fn_call.
PtrCallArgs(this, args) == [args |-> args, this |-> this]

PtrCall(op, this, args, pos, result) ==
    /\ last' = FnPtrOp(op, PtrCallArgs(this, args), pos, result)
    /\ UNCHANGED <<engine, caches, sightings, global, scope, frames, returned,
                   panic>>

\* The name of the method of the calls on an object map, and the hashes the
\* parser gave the call.
MapMethodName == <<"f", "a">>
MapMethodHashes(n) ==
    from_all(calc_fn_hash(FnNameString(MapMethodName), n),
             calc_fn_hash(FnNameString(MapMethodName), n + 1))

\* The argument lists of the calls of a pointer.
CallArgLists == {<< >>, <<42>>, <<42, 1>>}

\* The script evaluates ptr.call(args...).
FnPtrDotCall ==
    /\ scope # << >>
    /\ \E call_args \in CallArgLists :
        PtrCall("ptr.call", << >>, call_args, Position_NONE,
                CallOnFnPtr(scope[1], call_args))

\* The script evaluates obj.call(...), with the pointer, an integer or
\* nothing as the first argument.
ObjectDotCall ==
    /\ scope # << >>
    /\ \E target \in Values, is_ref_mut \in BOOLEAN, call_args \in CallArgLists,
          first \in {<< >>, <<IntValue>>, <<FnPtrValue(scope[1])>>},
          first_arg_pos \in Positions :
        PtrCall("obj.call", <<target>>, call_args, first_arg_pos,
                CallOnObject(target, is_ref_mut, first, first_arg_pos,
                             Position_NONE,
                             IF first = << >> THEN << >> ELSE call_args))

\* The script evaluates map.fa(args...) on an object map whose property fa
\* holds the pointer, or that has no such property.
MapFieldCall ==
    /\ scope # << >>
    /\ \E target \in Values, is_ref_mut \in BOOLEAN, call_args \in CallArgLists,
          field \in {<< >>, <<scope[1]>>} :
        PtrCall(IF field = << >> THEN "map.method" ELSE "map.field",
                <<target>>, call_args, Position_NONE,
                CallOnMapField(target, is_ref_mut, MapMethodName,
                               MapMethodHashes(Len(call_args)), field,
                               call_args))

\* The script evaluates call(arg, args...), arg being the pointer or an
\* integer.
CallKeywordCall ==
    /\ scope # << >>
    /\ \E arg_value \in {IntValue, FnPtrValue(scope[1])}, arg_pos \in Positions,
          call_args \in CallArgLists, by_ref \in BOOLEAN :
        PtrCall("call", << >>, call_args, arg_pos,
                CallKeyword(arg_value, arg_pos, call_args, by_ref))

\* A native function calls FnPtr::call_raw, with or without a this pointer.
CallRaw ==
    /\ scope # << >>
    /\ \E this_ptr \in {<< >>} \cup {<<v>> : v \in Values},
          arg_values \in CallArgLists :
        PtrCall("call_raw", this_ptr, arg_values, Position_NONE,
                call_raw(scope[1], this_ptr, arg_values))

NextFnPtr ==
    \/ NewFnPtr
    \/ FnCall
    \/ AnonymousFn
    \/ AddCurry
    \/ SetCurry
    \/ CurryCall
    \/ CurryMethodCall
    \/ FnPtrDotCall
    \/ ObjectDotCall
    \/ MapFieldCall
    \/ CallKeywordCall
    \/ CallRaw

SpecFnPtr == InitFnPtr /\ [][NextFnPtr]_vars

----------------------------------------------------------------------------
(* is_def_fn: src/func/call.rs *)

\* crate::INT, narrowed to four bits, and the largest INT that fits usize on
\* a target whose usize is narrower than INT.
INTs == (0 - 8)..7
MAX_USIZE_INT == 5

\* A Dynamic value: its type, its text (a string or the name of a function
\* pointer) and its number.
Dyn(type, s, n) == [s |-> s, n |-> n, type |-> type]

\* The names and the arities of the script functions of a library.
ScriptLibs == {{}, {<<"f", 0>>, <<"f", 2>>}, {<<"f", MAX_USIZE_INT>>, <<"fa", 1>>}}

\* Engine::has_script_fn: a script function is defined under the hash.
has_script_fn(lib, hash_script) ==
    \E fn \in lib : calc_fn_hash(fn[1], fn[2]) = hash_script

\* The answer of is_def_fn and whether a function was looked up for it.
IsDefFnAnswer(is_def, looked_up) == [is_def |-> is_def, looked_up |-> looked_up]

\* The test on the number of parameters that both forms make.
IsDefFn(lib, fn_name, num_params) ==
    IF num_params < 0 \/ num_params > MAX_USIZE_INT
    THEN Ok(IsDefFnAnswer(FALSE, FALSE))
    ELSE Ok(IsDefFnAnswer(has_script_fn(lib, calc_fn_hash(fn_name, num_params)),
                          TRUE))

\* make_function_call, KEYWORD_IS_DEF_FN with two arguments: the first must
\* be a string and the second an integer.
IsDefFnKeyword(lib, first, second) ==
    IF first.type # "string" THEN Err("ErrorMismatchDataType")
    ELSE IF second.type # "i64" THEN Err("ErrorMismatchDataType")
    ELSE IsDefFn(lib, first.s, second.n)

\* exec_fn_call with native-only hashes and the name is_def_fn: the arm is
\* taken for two arguments, the first a function pointer and the second an
\* integer, and reads the first through read_lock::<ImmutableString>(),
\* which gives None for a function pointer, so that expect panics. Any
\* other arguments fall through to the dispatch of a native function named
\* is_def_fn, which no package registers.
IsDefFnInExecFnCall(lib, args) ==
    IF Len(args) = 2 /\ args[1].type = "FnPtr" /\ args[2].type = "i64"
    THEN Err("panic")
    ELSE Err("ErrorFunctionNotFound")

\* The arguments given to is_def_fn.
IsDefFnNames == {"f", "fa", "g"}
IsDefFnFirst ==
    {Dyn("string", name, 0) : name \in IsDefFnNames}
    \cup {Dyn("FnPtr", name, 0) : name \in IsDefFnNames} \cup {Dyn("i64", "", 1)}
IsDefFnSecond == {Dyn("i64", "", n) : n \in INTs} \cup {Dyn("string", "f", 0)}

IsDefFnOp(op, first, second, result) ==
    [before |-> scope, result |-> result, arg |-> <<first, second>>,
     pos |-> Position_NONE, op |-> op]

InitIsDefFn ==
    /\ engine \in ScriptLibs
    /\ caches = << >>
    /\ sightings = << >>
    /\ last = [before |-> << >>, result |-> Ok(UNIT), arg |-> << >>,
               pos |-> Position_NONE, op |-> "none"]
    /\ global = NewGlobal
    /\ scope = << >>
    /\ frames = << >>
    /\ returned = NoReturn
    /\ panic = FALSE

\* The script evaluates is_def_fn(first, second).
IsDefFnCall ==
    /\ ~panic
    /\ \E first \in IsDefFnFirst, second \in IsDefFnSecond :
        last' = IsDefFnOp("is_def_fn", first, second,
                          IsDefFnKeyword(engine, first, second))
    /\ UNCHANGED <<engine, caches, sightings, global, scope, frames, returned,
                   panic>>

\* exec_fn_call is entered for is_def_fn with native-only hashes, as for the
\* method-call style first.is_def_fn(second).
IsDefFnMethodCall ==
    /\ ~panic
    /\ \E first \in IsDefFnFirst, second \in IsDefFnSecond :
        LET result == IsDefFnInExecFnCall(engine, <<first, second>>)
        IN  /\ last' = IsDefFnOp("exec_fn_call", first, second, result)
            /\ panic' = (result.err = "panic")
    /\ UNCHANGED <<engine, caches, sightings, global, scope, frames, returned>>

NextIsDefFn ==
    \/ IsDefFnCall
    \/ IsDefFnMethodCall

SpecIsDefFn == InitIsDefFn /\ [][NextIsDefFn]_vars

----------------------------------------------------------------------------
(* The evaluation of the arguments of a call: src/func/call.rs *)

\* The longest list of argument expressions.
MaxArgExprs == 3

\* An argument expression: a variable, a namespace-qualified variable or
\* any other expression, and whether its evaluation succeeds.
ArgExpr(kind, ok) == [kind |-> kind, ok |-> ok]
ArgExprs ==
    {ArgExpr(kind, ok) : kind \in {"var", "qualified_var", "expr"},
                         ok \in BOOLEAN}
ArgExprLists == UNION {[1..n -> ArgExprs] : n \in 0..MaxArgExprs}

\* Expr::is_variable_access(non_qualified).
is_variable_access(expr, non_qualified) ==
    \/ expr.kind = "var"
    \/ expr.kind = "qualified_var" /\ ~non_qualified

\* The indexes from..to in increasing order.
Indexes(from, to) == [i \in 1..(to - from + 1) |-> from + i - 1]

\* try_for_each over the expressions at the indexes of order: they are
\* evaluated in this order up to the first that fails; evaluated are the
\* indexes reached, failed whether one of them failed.
RECURSIVE TryForEach(_, _, _)
TryForEach(exprs, order, done) ==
    IF order = << >> THEN [evaluated |-> done, failed |-> FALSE]
    ELSE IF ~exprs[order[1]].ok
    THEN [evaluated |-> Append(done, order[1]), failed |-> TRUE]
    ELSE TryForEach(exprs, Tail(order), Append(done, order[1]))

\* An order of evaluation that takes the first argument first in every
\* call.
ArgOrderLeftToRight(exprs, curry_len, capture, non_qualified) ==
    Indexes(1, Len(exprs))

\* The order in which make_function_call (non_qualified false, after the
\* special forms) and make_qualified_function_call (non_qualified true, no
\* curried values, no capture) evaluate the argument expressions: capture
\* is capture_scope && !scope.is_empty().
ArgOrder(exprs, curry_len, capture, non_qualified) ==
    IF capture THEN Indexes(1, Len(exprs))
    ELSE IF exprs = << >> THEN << >>
    ELSE IF curry_len = 0 /\ is_variable_access(exprs[1], non_qualified)
    THEN Indexes(2, Len(exprs)) \o <<1>>
    ELSE Indexes(1, Len(exprs))

\* The evaluation of the arguments and whether the call is dispatched
\* (exec_fn_call, or the search of the namespace of a qualified call).
EvalArgs(exprs, curry_len, capture, non_qualified) ==
    LET run == TryForEach(exprs, ArgOrder(exprs, curry_len, capture,
                                          non_qualified), << >>)
    IN  [evaluated |-> run.evaluated, dispatched |-> ~run.failed]

\* make_function_call, KEYWORD_FN_PTR_CALL: the first expression is
\* evaluated and must give a pointer; the arguments are shifted and the call
\* goes on with the pointer's curried values.
EvalCallKeywordArgs(exprs, curry_len, capture) ==
    IF ~exprs[1].ok THEN [evaluated |-> <<1>>, dispatched |-> FALSE]
    ELSE LET rest == EvalArgs(Tail(exprs), curry_len, capture, FALSE)
         IN  [evaluated |-> <<1>> \o [i \in 1..Len(rest.evaluated)
                                        |-> rest.evaluated[i] + 1],
              dispatched |-> rest.dispatched]

ArgsOp(op, exprs, curry_len, capture, result) ==
    [before |-> <<curry_len, capture>>, result |-> result, arg |-> exprs,
     pos |-> Position_NONE, op |-> op]

InitArgs ==
    /\ engine = SourceEngine({}, {}, {}, {})
    /\ caches = << >>
    /\ sightings = << >>
    /\ last = [before |-> << >>, result |-> Ok(UNIT), arg |-> << >>,
               pos |-> Position_NONE, op |-> "none"]
    /\ global = NewGlobal
    /\ scope = << >>
    /\ frames = << >>
    /\ returned = NoReturn
    /\ panic = FALSE

\* The script evaluates name(args...), capturing the parent scope or not.
FunctionCallArgs ==
    /\ last.op = "none"
    /\ \E exprs \in ArgExprLists, capture \in BOOLEAN :
        last' = ArgsOp("call", exprs, 0, capture,
                       EvalArgs(exprs, 0, capture, FALSE))
    /\ UNCHANGED <<engine, caches, sightings, global, scope, frames, returned,
                   panic>>

\* The script evaluates call(ptr, args...) with a pointer that holds
\* curry_len curried values.
PointerCallArgs ==
    /\ last.op = "none"
    /\ \E exprs \in ArgExprLists \ {<< >>}, curry_len \in 0..1,
          capture \in BOOLEAN :
        last' = ArgsOp("call_ptr", exprs, curry_len, capture,
                       EvalCallKeywordArgs(exprs, curry_len, capture))
    /\ UNCHANGED <<engine, caches, sightings, global, scope, frames, returned,
                   panic>>

\* The script evaluates ns::name(args...).
QualifiedCallArgs ==
    /\ last.op = "none"
    /\ \E exprs \in ArgExprLists :
        last' = ArgsOp("qualified", exprs, 0, FALSE,
                       EvalArgs(exprs, 0, FALSE, TRUE))
    /\ UNCHANGED <<engine, caches, sightings, global, scope, frames, returned,
                   panic>>

NextArgs ==
    \/ FunctionCallArgs
    \/ PointerCallArgs
    \/ QualifiedCallArgs

SpecArgs == InitArgs /\ [][NextArgs]_vars

----------------------------------------------------------------------------
(* The lookup of a namespace-qualified call: src/func/call.rs *)

\* The functions a module imported as `imp` can hold under the name g: a
\* script function of two parameters under its base hash, and native
\* functions under the typed hashes of (int, int), (int, Dynamic),
\* (Dynamic, int), (Dynamic, Dynamic) and (Dynamic).
QualifiedBase(n) == calc_qualified_fn_hash(<<"imp">>, "g", n)
QualifiedFns ==
    (QualifiedBase(2) :> Callable("script", FALSE, "imp::g/2"))
    @@ (calc_fn_hash_full(QualifiedBase(2), <<1, 1>>)
            :> Callable("native", TRUE, "imp::g(int, int)"))
    @@ (calc_fn_hash_full(QualifiedBase(2), <<1, DynamicTypeId>>)
            :> Callable("native", TRUE, "imp::g(int, ?)"))
    @@ (calc_fn_hash_full(QualifiedBase(2), <<DynamicTypeId, 1>>)
            :> Callable("native", TRUE, "imp::g(?, int)"))
    @@ (calc_fn_hash_full(QualifiedBase(2), <<DynamicTypeId, DynamicTypeId>>)
            :> Callable("native", TRUE, "imp::g(?, ?)"))
    @@ (calc_fn_hash_full(QualifiedBase(1), <<DynamicTypeId>>)
            :> Callable("native", TRUE, "imp::g(?)"))

\* The engines whose imported module holds some of these functions.
QualifiedEngines ==
    {[CallEngine(FALSE) EXCEPT
        !.imports = <<Module("imp", [h \in held |-> QualifiedFns[h]], {})>>] :
     held \in SUBSET DOMAIN QualifiedFns}

\* The calls imp::g(..) and nomod::g(..) with every list of argument types.
QualifiedLookupSites ==
    {QualifiedSite(namespace, "g", types, FALSE, FALSE) :
        namespace \in {"imp", "nomod"}, types \in ArgTypes}

InitQualified ==
    /\ engine \in QualifiedEngines
    /\ caches = << >>
    /\ sightings = << >>
    /\ last = [before |-> << >>, result |-> Ok(UNIT), arg |-> << >>,
               pos |-> Position_NONE, op |-> "none"]
    /\ global = NewGlobal
    /\ scope = << >>
    /\ frames = << >>
    /\ returned = NoReturn
    /\ panic = FALSE

\* The script evaluates a qualified call: the outcome is the error of the
\* call, or the function that is entered.
QualifiedDispatch ==
    /\ last.op = "none"
    /\ \E site \in QualifiedLookupSites, track_ok \in BOOLEAN :
        LET st == make_qualified_function_call(engine, global, EmptyCache,
                                               scope, 1, site, 0, track_ok)
        IN  last' = [before |-> << >>,
                     result |-> IF st.result.ok THEN Ok(st.frame.fn)
                                ELSE st.result,
                     arg |-> site, pos |-> Position_NONE, op |-> "qualified"]
    /\ UNCHANGED <<engine, caches, sightings, global, scope, frames, returned,
                   panic>>

NextQualified == QualifiedDispatch

SpecQualified == InitQualified /\ [][NextQualified]_vars

----------------------------------------------------------------------------
(* Claims about the calls *)

\* The frames of a pure native function entered with is_ref_mut and a
\* non-empty argument list.
PureNativeByRef(frame) ==
    /\ frame.path = "exec_fn_call"
    /\ frame.kind \in {"native", "plugin", "builtin"}
    /\ frame.pure /\ frame.is_ref_mut /\ frame.nargs > 0

\* C1: a pure native function entered with is_ref_mut and arguments gets a
\* clone in slot 0, and the caller's first-argument value is after the call
\* what it was before it, whatever the callee wrote and whether the call
\* returned a value or an error.
C1_PureNativeKeepsFirstArg ==
    /\ \A i \in 2..Len(frames) :
            PureNativeByRef(frames[i]) =>
                /\ frames[i].arg0 = "copy"
                /\ frames[i - 1].var = frames[i].before.var
    /\ (returned.n > 0 /\ PureNativeByRef(returned.call)) =>
            returned.after.var = returned.call.before.var

\* g(x) wrote to its slot 0 and ended with an error.
C1_Witness ==
    /\ returned.n > 0 /\ PureNativeByRef(returned.call)
    /\ returned.call.wrote /\ ~returned.result.ok

\* C2: whenever a swap of args[0] was armed, args[0] is the caller's slot
\* again when the function returns, on the normal path and on every error
\* path, and the assertion of ArgBackup's drop never fails.
C2_SwapRestoredOnEveryExit ==
    /\ ~panic
    /\ (returned.n > 0 /\ returned.call.arg_guard) =>
            /\ returned.call.arg0 = "ref"
            /\ returned.call.backup.orig_mut = << >>

\* A swapped call left through the early return of a size check.
C2_Witness ==
    /\ returned.n > 0 /\ returned.call.arg_guard
    /\ returned.result = Err("ErrorDataTooLarge")

\* C3: with rewind_scope the host's scope is as long after call_fn_raw as
\* before it, whatever the statements and the function did; without it,
\* decl(42) leaves hello = 42 in the host's scope.
C3_RewindScope ==
    (returned.n > 0 /\ returned.call.path = "host") =>
        /\ returned.call.rewind_scope =>
                returned.after.scope_len = returned.call.before.scope_len
        /\ (~returned.call.rewind_scope /\ returned.call.name = "decl"
            /\ returned.result.ok) =>
                \E i \in 1..Len(scope) :
                    scope[i] = [name |-> "hello", value |-> 42]

\* decl(42) returned without rewinding and the scope holds hello = 42.
C3_Witness ==
    /\ returned.n > 0 /\ returned.call.path = "host"
    /\ ~returned.call.rewind_scope /\ returned.call.name = "decl"
    /\ returned.result.ok
    /\ returned.after.scope_len > returned.call.before.scope_len

\* The argument of a call of foo, bound or not.
FooArg(call) == IF call.arg_value # UNIT THEN call.arg_value ELSE call.n

\* A call expression foo(n) of a script has returned.
FooReturned ==
    /\ returned.n > 0 /\ returned.call.name = "foo"
    /\ returned.call.path = "exec_fn_call"

\* The nesting foo(n) needs, and its value.
FooDepth(n, foo_base) == IF foo_base = 0 THEN n + 1 ELSE Max(n, 1)

FooValue(n, foo_base) ==
    IF foo_base = 0 \/ n = 0 THEN (n * (n + 1)) \div 2
    ELSE (n * (n + 1)) \div 2 - 1

\* C4: a recursion of foo deeper than max_call_levels ends with
\* ErrorStackOverflow (foo(max_call_levels + 1) with the base case n == 0),
\* one within the limit returns its value (foo(6) = 20 with the base case
\* n <= 1), and no script function runs at a level above the limit, the
\* level rising with every nested call.
C4_StackOverflow ==
    /\ \A i \in 1..Len(frames) :
            (frames[i].kind = "script" /\ frames[i].level_guard) =>
                frames[i].before.level + 1 <= MaxCallLevels
    /\ \A i, j \in 1..Len(frames) :
            (i < j /\ frames[i].level_guard /\ frames[j].level_guard) =>
                frames[i].before.level < frames[j].before.level
    /\ FooReturned =>
            returned.result =
                IF returned.call.before.level
                        + FooDepth(FooArg(returned.call), returned.call.foo_base)
                    <= MaxCallLevels
                THEN Ok(FooValue(FooArg(returned.call), returned.call.foo_base))
                ELSE Err("ErrorStackOverflow")
    /\ (FooReturned
        /\ returned.call.before.level = 0 /\ returned.call.foo_base = 1
        /\ FooArg(returned.call) = 6) => returned.result = Ok(20)

\* foo(max_call_levels + 1), called from the top level, overflowed.
C4_Witness ==
    /\ FooReturned
    /\ returned.call.before.level = 0 /\ returned.call.foo_base = 0
    /\ FooArg(returned.call) = MaxCallLevels + 1
    /\ returned.result = Err("ErrorStackOverflow")

\* The call paths that raise global.level.
LevelPaths == {"exec_fn_call", "eval", "qualified", "builtin"}

\* C5: every call path that raises global.level lowers it again on every
\* exit: after the call global.level is what it was before it, and while
\* the callee runs it is one more than the caller's level.
C5_LevelRestored ==
    /\ (frames # << >> /\ Top.path \in LevelPaths) =>
            /\ Top.level_guard
            /\ global.level = Top.before.level + 1
    /\ (returned.n > 0 /\ returned.call.path \in LevelPaths) =>
            returned.after.level = returned.call.before.level

\* An eval inside a called function ended with an error.
C5_Witness ==
    /\ returned.n > 0 /\ returned.call.path = "eval"
    /\ returned.call.level_guard /\ returned.call.before.level = 1
    /\ ~returned.result.ok

\* The source of the innermost script call that replaced global.source.
CurrentSource ==
    LET guarded == {i \in 1..Len(frames) : frames[i].source_guard # << >>}
    IN  IF guarded = {} THEN << >>
        ELSE frames[CHOOSE i \in guarded : \A j \in guarded : j <= i].source

\* C6: global.source is the callee's source only while a script call runs,
\* global.embedded_module_resolver is the program's resolver only while
\* _call_fn runs, and after a call, with a value or an error, both hold
\* what they held before it.
C6_SourceAndResolverRestored ==
    /\ global.source = CurrentSource
    /\ global.embedded_module_resolver =
            IF frames = << >> THEN << >> ELSE <<"resolver">>
    /\ returned.n > 0 =>
            /\ returned.after.source = returned.call.before.source
            /\ returned.after.embedded_module_resolver
                    = returned.call.before.embedded_module_resolver

\* A qualified script call made by a function of the program ended with an
\* error.
C6_Witness ==
    /\ returned.n > 0 /\ returned.call.path = "qualified"
    /\ returned.call.source_guard = <<<<"ast">>>>
    /\ returned.call.source = <<"imp">>
    /\ ~returned.result.ok

----------------------------------------------------------------------------
(* Claims about the resolution cache *)

\* The outcome of the last call, had it been made with an empty cache.
UncachedOutcome ==
    resolve_fn(engine, EmptyCache, last.op_token, last.hash_base, last.args,
               last.allow_dynamic).ret

\* C7: the resolution cache is purely a memo: every resolve_fn call returns
\* the outcome (the same callable and source, or none) that the same call
\* returns with an empty cache, after any sequence of calls and clears.
C7_CacheIsPureMemo ==
    last.n > 0 => last.ret = UncachedOutcome

\* C8: every hash that is a key of a resolution cache map has its bit set in
\* that cache's bloom filter.
C8_MapKeysHaveFilterBit ==
    \A i \in 1..Len(caches) :
        \A h \in DOMAIN caches[i].map : h \in caches[i].filter

\* C9: a typed hash is inserted into the map only on its second sighting:
\* the first miss for h that finds a function (exactly or through a wildcard
\* permutation) sets h's filter bit and returns the entry through the local
\* scratch slot without inserting, and every key of the map has missed twice.
C9_InsertedOnSecondSighting ==
    /\ (last.first /\ last.ret # << >>) =>
            /\ ~last.inserted
            /\ last.local_entry = last.ret
            /\ last.hash \in caches[Len(caches)].filter
    /\ \A i \in 1..Len(caches) :
            \A h \in DOMAIN caches[i].map : h \in sightings[i].twice

\* C10: for every non-zero base hash and every arity, a first resolve_fn call
\* that finds no function does not insert into the map and sets the bloom bit
\* of the hash, and a second call with the same hash and argument types
\* inserts a negative entry (none) into the map.
C10_NegativeEntryOnSecondCall ==
    (last.n > 0 /\ last.hash_base # 0 /\ ~last.hit /\ last.ret = << >>) =>
        IF last.first
        THEN /\ last.hash \notin DOMAIN caches[Len(caches)].map
             /\ last.hash \in caches[Len(caches)].filter
        ELSE /\ last.hash \in DOMAIN caches[Len(caches)].map
             /\ caches[Len(caches)].map[last.hash] = << >>

----------------------------------------------------------------------------
(* Claims about the search of the sources *)

\* The first of the modules that holds a function under the hash.
FirstHolder(modules, hash) ==
    LET holders == {i \in 1..Len(modules) : hash \in DOMAIN modules[i].fns}
    IN  IF holders = {} THEN << >>
        ELSE <<modules[CHOOSE i \in holders : \A j \in holders : i <= j]>>

\* The four sources in their order: (a) the call-site library, (b) the global
\* modules, (c) the imports, (d) the static sub-modules.
AllSources ==
    engine.lib \o engine.global_modules \o Reverse(engine.imports)
        \o engine.global_sub_modules

\* The sources a lookup without an argument list goes through.
ScriptSources == engine.lib \o engine.global_modules

\* The last call missed the cache and went through the search.
LastMissed == last.n > 0 /\ last.hash_base # 0 /\ ~last.hit

\* The entry the last call has to return when the first of the modules
\* holding its last probed hash is the one searched first.
FirstFound(modules) ==
    LET hash == last.probes[Len(last.probes)]
        holder == FirstHolder(modules, hash)
    IN  IF holder = << >> THEN << >>
        ELSE <<[func |-> holder[1].fns[hash], source |-> holder[1].id]>>

\* C11 as stated: on every cache miss the function returned is the first one
\* found for the probed hash in the order (a), (b), (c), (d), with the id of
\* the module that holds it as the source.
C11_FirstOfFourSources ==
    (LastMissed /\ FirstFound(AllSources) # << >>) =>
        last.ret = FirstFound(AllSources)

\* C11: on a cache miss of a call with an argument list the function
\* returned is the first one found for the probed hash in the order (a),
\* (b), (c), (d); without an argument list (the lookup of a script function)
\* only (a) and (b) are searched, in this order; the source recorded is the
\* id of the module that holds the function.
C11_FirstOfSearchedSources ==
    LastMissed =>
        LET searched == IF last.args = << >> THEN ScriptSources ELSE AllSources
        IN  /\ FirstFound(searched) # << >> => last.ret = FirstFound(searched)
            /\ FirstFound(searched) = << >> => last.ret = << >>

\* f(int) is held by the imports and by the static sub-modules, and the
\* call got the one of the imports.
C11_Witness ==
    /\ LastMissed /\ last.args = <<<<1>>>>
    /\ last.hash \notin DOMAIN engine.global_modules[1].fns
    /\ last.hash \in DOMAIN engine.imports[1].fns
    /\ last.hash \in DOMAIN engine.global_sub_modules[1].fns
    /\ last.ret # << >> /\ last.ret[1].source = "imp"

\* The function of the returned entry is filed under another hash than the
\* one typed with the argument types: it is a wildcard overload.
ReturnedWildcard ==
    \E i \in 1..Len(AllSources) :
        \E h \in DOMAIN AllSources[i].fns \ {last.hash} :
            AllSources[i].fns[h] = last.ret[1].func

\* C12: a call with an argument list gets the overload filed under the hash
\* of exactly its argument types whenever any of the searched sources holds
\* one, whatever wildcard overloads the sources searched before it hold, and
\* gets a wildcard overload only when no source holds the exact one.
C12_ExactOverloadFirst ==
    (last.n > 0 /\ last.hash_base # 0 /\ last.args # << >>) =>
        LET exact == FirstHolder(AllSources, last.hash)
        IN  /\ exact # << >> =>
                /\ last.ret # << >>
                /\ last.ret[1].func = exact[1].fns[last.hash]
            /\ (last.ret # << >> /\ ReturnedWildcard) => exact = << >>

\* f(int) got the overload f(int) of the static sub-modules although the
\* global modules, searched before them, hold f(Dynamic).
C12_Witness ==
    /\ last.n > 0 /\ last.args = <<<<1>>>>
    /\ OverloadHash("f(Dynamic)") \in DOMAIN engine.global_modules[1].fns
    /\ last.ret # << >> /\ last.ret[1].func.tag = "sub::f(int)"

\* The argument types of the last call.
LastTypes == IF last.args = << >> THEN << >> ELSE last.args[1]

\* The hash of the argument types with the parameters of the set bits of b
\* replaced by Dynamic, bit Len - 1 standing for the first parameter.
WildcardHash(b) ==
    calc_fn_hash_full(last.hash_base,
        [i \in 1..Len(LastTypes) |->
            IF (b \div (2 ^ (Len(LastTypes) - i))) % 2 = 1
            THEN DynamicTypeId ELSE LastTypes[i]])

\* A searched source holds a function under the hash.
Held(hash) ==
    FirstHolder(IF last.args = << >> THEN ScriptSources ELSE AllSources, hash)
        # << >>

\* The conditions of the fallback.
FallbackAllowed ==
    /\ last.allow_dynamic
    /\ Len(LastTypes) > 0
    /\ \E i \in 1..Len(AllSources) : last.hash_base \in AllSources[i].dynamic

\* The bitmasks to probe: none when the exact hash is found or the fallback
\* is not allowed, otherwise 1, 2, .. up to the first one that is found.
ExpectedBitmasks ==
    IF Held(last.hash) \/ ~FallbackAllowed THEN {}
    ELSE {b \in 1..(2 ^ Min(Len(LastTypes), MAX_DYNAMIC_PARAMETERS) - 1) :
            \A c \in 1..(b - 1) : ~Held(WildcardHash(c))}

\* C13: the hashes probed by a call that misses the cache are the typed hash
\* and then, when allow_dynamic is set, the arity is above 0 and a module
\* reports may_contain_dynamic_fn for the base hash, the permutations of the
\* bitmasks 1, 2, .. 2^min(n, MAX_DYNAMIC_PARAMETERS) - 1, each once, in
\* increasing order, the most significant bit standing for the left-most
\* parameter, up to the first one found, which is the one returned.
C13_BitmaskOrder ==
    LastMissed =>
        /\ Len(last.probes) = 1 + Cardinality(ExpectedBitmasks)
        /\ last.probes[1] = last.hash
        /\ \A b \in ExpectedBitmasks : last.probes[b + 1] = WildcardHash(b)
        /\ (\E b \in ExpectedBitmasks : Held(WildcardHash(b))) =>
                last.ret = FirstFound(AllSources)

\* f(int, int) went through the bitmasks 1, 2 and 3 and got
\* f(Dynamic, Dynamic).
C13_Witness ==
    /\ LastMissed /\ last.args = <<<<1, 1>>>>
    /\ Len(last.probes) = 4
    /\ last.ret # << >> /\ last.ret[1].func.tag = "pkg::f(Dynamic,Dynamic)"

----------------------------------------------------------------------------
(* Claims about the entry point *)

\* call_fn_raw has returned to the host.
HostReturned == returned.n > 0 /\ returned.call.path = "host"

\* The script functions of the program, by name and number of parameters:
\* fn f(x), fn foo(n), fn decl(x), fn empty(), fn action(x).
ProgramFns ==
    {<<"f", 1>>, <<"foo", 1>>, <<"decl", 1>>, <<"empty", 0>>, <<"action", 1>>}

\* The library has no script function with the name and the arity called.
NoSuchScriptFn(call) == <<call.name, call.nargs>> \notin ProgramFns

\* C14 as stated: _call_fn returns ErrorFunctionNotFound without running a
\* function body exactly when the library holds no script function with the
\* name and the number of arguments of the call.
C14_NotFoundExactlyWhenAbsent ==
    HostReturned =>
        ((returned.result = Err("ErrorFunctionNotFound")
                /\ returned.call.phase # "body")
            <=> NoSuchScriptFn(returned.call))

\* C14: once the statements (when they are evaluated) have succeeded and
\* the arguments have passed the data-race check, _call_fn returns
\* ErrorFunctionNotFound without running a function body exactly when the
\* library holds no script function with the name and the number of
\* arguments of the call, a function of another arity or a native function
\* of that name not counting; an error of the statements and ErrorDataRace
\* are returned before the lookup, whether the function exists or not.
C14_NotFoundAfterStatementsAndRaceCheck ==
    HostReturned =>
        /\ returned.call.phase = "body" => ~NoSuchScriptFn(returned.call)
        /\ returned.call.phase = "statements" =>
                returned.result = Err("ErrorRuntime")
        /\ returned.call.phase = "lookup" =>
                returned.result.err =
                    IF returned.call.locked # {} THEN "ErrorDataRace"
                    ELSE "ErrorFunctionNotFound"
        /\ (returned.call.phase = "lookup" /\ returned.call.locked = {}) =>
                NoSuchScriptFn(returned.call)

\* f() was called with no argument where the library holds f(x) only.
C14_Witness ==
    /\ HostReturned
    /\ returned.call.name = "f" /\ returned.call.nargs = 0
    /\ returned.call.phase = "lookup"
    /\ returned.result = Err("ErrorFunctionNotFound")

\* call_fn::<T> has returned to the host.
TypedReturned == HostReturned /\ returned.call.want # "raw"

\* C15 as stated: call_fn::<T> returns the raw result when its type is T and
\* ErrorMismatchOutputType with the names of T and of the result's type
\* whenever the two differ.
C15_CastOrMismatch ==
    (TypedReturned /\ returned.result.ok) =>
        returned.call.typed =
            IF type_name(returned.result.val) = returned.call.want
            THEN returned.result
            ELSE ErrMismatchOutputType(returned.call.want,
                                       type_name(returned.result.val))

\* C15: call_fn::<T> passes an error of call_fn_raw on; for a result of type
\* R it returns the result when T is Dynamic, () when T is (), and for every
\* other T the result when R is T and ErrorMismatchOutputType with the
\* names of T and R when it is not.
C15_CastUnlessDynamicOrUnit ==
    TypedReturned =>
        returned.call.typed =
            IF ~returned.result.ok THEN returned.result
            ELSE IF returned.call.want = "Dynamic" THEN returned.result
            ELSE IF returned.call.want = "()" THEN Ok(UNIT)
            ELSE IF type_name(returned.result.val) = returned.call.want
            THEN returned.result
            ELSE ErrMismatchOutputType(returned.call.want,
                                       type_name(returned.result.val))

\* call_fn::<int> of a function that returned () ended with the mismatch of
\* int and ().
C15_Witness ==
    /\ TypedReturned /\ returned.call.want = "int"
    /\ returned.result = Ok(UNIT)
    /\ returned.call.typed = ErrMismatchOutputType("int", "()")

\* call_fn_raw with a `this` value has returned from the body of the
\* function.
ThisReturned ==
    HostReturned /\ returned.call.this /\ returned.call.phase = "body"

\* C16: what the called function wrote to `this` is the host's value after
\* call_fn_raw, the host's value is untouched when the function wrote
\* nothing, and the argument is bound to the parameter: action(41) with
\* this = 1 leaves this = 42 and returns ().
C16_ThisWritesVisible ==
    /\ (ThisReturned /\ returned.call.wrote) =>
            returned.after.var # returned.call.before.var
    /\ (ThisReturned /\ ~returned.call.wrote) =>
            returned.after.var = returned.call.before.var
    /\ (ThisReturned /\ returned.call.name = "action") =>
            /\ returned.call.before.var = 1 /\ returned.call.arg_value = 41
            /\ returned.after.var = 42
            /\ returned.result = Ok(UNIT)

\* action(41) has returned and the host's value is 42.
C16_Witness ==
    /\ ThisReturned /\ returned.call.name = "action"
    /\ returned.call.wrote /\ returned.after.var = 42

----------------------------------------------------------------------------
(* Claims about native calls *)

\* A call through exec_fn_call or a qualified call that resolved to a
\* native callable has returned.
NativeReturned ==
    /\ returned.n > 0
    /\ returned.call.path \in {"exec_fn_call", "qualified"}
    /\ returned.call.kind \in {"native", "plugin"}

\* The returned call is of a non-pure plugin function with a read-only
\* first argument.
PluginOnConstant ==
    /\ returned.call.kind = "plugin" /\ ~returned.call.pure
    /\ returned.call.nargs > 0 /\ returned.call.read_only

\* C17: a non-pure plugin function called with a non-empty argument list
\* whose first argument is read-only returns
\* ErrorNonPureMethodCallOnConstant without being invoked, through
\* exec_native_fn_call and through a qualified call alike; a call that
\* resolves to a non-plugin native function or to a pure plugin function
\* never returns this error.
C17_NonPureOnConstantRejected ==
    NativeReturned =>
        /\ PluginOnConstant =>
                /\ returned.result = Err("ErrorNonPureMethodCallOnConstant")
                /\ ~returned.call.invoked
        /\ ~PluginOnConstant =>
                returned.result # Err("ErrorNonPureMethodCallOnConstant")

\* c.p() on a constant c was rejected, p not invoked.
C17_Witness ==
    /\ NativeReturned /\ PluginOnConstant
    /\ returned.call.fn = "p(int)"
    /\ returned.result = Err("ErrorNonPureMethodCallOnConstant")
    /\ ~returned.call.invoked

----------------------------------------------------------------------------
(* Claims about the data-race check *)

\* The one-based indexes of the locked arguments that the check scans: all
\* of them, the first slot aside when it is the &mut receiver.
ScannedLocked ==
    {n \in 1..Len(last.args) : last.args[n] /\ (last.is_ref_mut => n > 1)}

\* C18: ensure_no_data_race returns ErrorDataRace exactly when a scanned
\* argument is a locked shared value, where every argument is scanned but
\* the first one when is_ref_mut is set; the error names the one-based
\* index, in the whole argument list, of the first such argument;
\* otherwise the check returns Ok.
C18_DataRaceNamesFirstLocked ==
    last.checked =>
        IF ScannedLocked = {} THEN last.result = Ok(UNIT)
        ELSE /\ last.result.err = "ErrorDataRace"
             /\ last.result.fn_name = last.fn_name
             /\ last.result.arg \in ScannedLocked
             /\ \A n \in ScannedLocked : last.result.arg <= n

\* The receiver and the third argument are locked, the receiver is
\* skipped, and the error names argument 3.
C18_Witness ==
    /\ last.checked /\ last.is_ref_mut
    /\ Len(last.args) >= 3
    /\ last.args[1] /\ ~last.args[2] /\ last.args[3]
    /\ last.result = ErrDataRace(3, last.fn_name)

----------------------------------------------------------------------------
(* Claims about function pointers *)

\* Fn(s) was evaluated with an argument whose value is the string s.
FnOfString ==
    /\ last.op = "Fn"
    /\ last.result.err \notin {"ErrorTooManyOperations", "ErrorMismatchDataType"}

\* C19: Fn(s) with one argument whose value is the string s returns a
\* function pointer named s with no curried argument if and only if s is a
\* valid function name, and otherwise returns ErrorFunctionNotFound at the
\* position of the argument expression.
C19_FnOfValidName ==
    FnOfString =>
        IF is_valid_function_name(last.arg)
        THEN /\ last.result.ok
             /\ last.result.val = new_unchecked(last.arg, << >>)
             /\ scope = <<last.result.val>>
        ELSE /\ ~last.result.ok
             /\ last.result.err = "ErrorFunctionNotFound"
             /\ last.result.pos = last.pos
             /\ last.pos \in Positions
             /\ scope = last.before

\* Fn("f$") failed at the position of its argument.
C19_Witness ==
    /\ FnOfString
    /\ last.arg = <<"f", "$">>
    /\ last.result = ErrFunctionNotFound(<<"f", "$">>, last.pos)
    /\ last.pos \in Positions

\* The name of the pointer in the scope is a valid identifier or begins
\* with the anonymous prefix.
NameIsValidOrAnonymous ==
    scope # << >> =>
        is_valid_identifier(scope[1].name) \/ is_anonymous_fn(scope[1].name)

\* add_curry, set_curry and curry leave the pointer its name.
CurryKeepsName ==
    last.op \in {"add_curry", "set_curry", "curry", "curry_method"} =>
        /\ last.before # << >> /\ scope # << >>
        /\ scope[1].name = last.before[1].name

\* C20 as stated: FnPtr::new succeeds for the valid identifiers and for the
\* names that begin with anon$ and fails for every other name; add_curry,
\* set_curry and curry never change the name, and every pointer has a
\* name that is a valid identifier or begins with anon$.
C20_NewTakesAnonymousNames ==
    /\ last.op = "new" =>
            (last.result.ok <=>
                (is_valid_identifier(last.arg) \/ is_anonymous_fn(last.arg)))
    /\ CurryKeepsName
    /\ NameIsValidOrAnonymous

\* C20: FnPtr::new succeeds, with the name given and no curried argument,
\* exactly for the valid identifiers, and fails with ErrorFunctionNotFound
\* for every other name, those that begin with anon$ included (pointers
\* to anonymous functions are built unchecked by the engine); add_curry,
\* set_curry and curry never change the name, and every pointer has a name
\* that is a valid identifier or begins with anon$.
C20_NewTakesValidIdentifiers ==
    /\ last.op = "new" =>
            IF is_valid_identifier(last.arg)
            THEN /\ last.result.ok
                 /\ last.result.val = new_unchecked(last.arg, << >>)
            ELSE /\ ~last.result.ok
                 /\ last.result.err = "ErrorFunctionNotFound"
                 /\ scope = last.before
    /\ CurryKeepsName
    /\ NameIsValidOrAnonymous

\* FnPtr::new failed for anon$1 after a closure's pointer was curried and
\* kept its anonymous name.
C20_Witness ==
    /\ last.op = "new" /\ last.arg = FN_ANONYMOUS \o <<"1">>
    /\ ~last.result.ok
    /\ scope # << >> /\ scope[1].curry # << >>
    /\ is_anonymous_fn(scope[1].name)

\* C21: currying is associative: for the pointer fp and the lists of values
\* A and B, curry(curry(fp, A), B) and curry(fp, A ++ B) have the name of fp
\* and the curried values of fp followed by A and by B, in the function-call
\* form (which takes at least one value) and in the method-call form; and
\* a pointer that was curried holds its former values followed by the new
\* ones.
C21_CurryAssociative ==
    /\ scope # << >> =>
            \A A, B \in CurryLists(MaxCurry) :
                LET fp == scope[1]
                    both == new_unchecked(fp.name, fp.curry \o A \o B)
                IN  /\ (A # << >> /\ B # << >>) =>
                            /\ CurryKeyword(CurryKeyword(fp, A), B) = both
                            /\ CurryKeyword(fp, A \o B) = both
                    /\ CurryMethod(CurryMethod(fp, A), B) = both
                    /\ CurryMethod(fp, A \o B) = both
    /\ last.op \in {"curry", "curry_method"} =>
            scope = <<new_unchecked(last.before[1].name,
                                    last.before[1].curry \o last.arg)>>

\* A pointer that held a curried value was curried again with curry(fp, v).
C21_Witness ==
    /\ last.op = "curry"
    /\ last.before[1].curry # << >> /\ last.arg # << >>
    /\ scope[1].curry = last.before[1].curry \o last.arg

\* The forms in which a pointer is called.
PtrCallForms == {"ptr.call", "obj.call", "map.field", "call", "call_raw"}

\* The last operation was a call of the pointer that reached exec_fn_call.
PtrCalled == last.op \in PtrCallForms /\ last.result.ok

\* C22: a pointer with curried values c1..cm called with arguments a1..an
\* hands exec_fn_call the slots [receiver], c1..cm, a1..an under the
\* pointer's name, the receiver being there only on the method-call paths;
\* the script hash is that of the name with arity m + n and the native hash
\* that of the name with arity m + n, plus one when a receiver is in front.
\* This holds for call(fp, ..), fp.call(..), obj.call(fp, ..), a map
\* property holding the pointer, and FnPtr::call_raw.
C22_PointerCallSlots ==
    PtrCalled =>
        LET fn_ptr == last.before[1]
            this == last.arg.this
            given == last.result.val
            name == FnNameString(fn_ptr.name)
            arity == Len(fn_ptr.curry) + Len(last.arg.args)
        IN  /\ given.fn_name = fn_ptr.name
            /\ given.args = this \o fn_ptr.curry \o last.arg.args
            /\ given.is_method_call = (this # << >>)
            /\ given.hashes.script = calc_fn_hash(name, arity)
            /\ given.hashes.native = calc_fn_hash(name, arity + Len(this))

\* Every form has called a pointer with curried values and arguments that
\* differ; here the call through the pointer itself.
C22_Witness ==
    /\ PtrCalled /\ last.op = "ptr.call"
    /\ last.before[1].curry = <<1>>
    /\ last.arg.args = <<42, 1>>
    /\ last.result.val.args = <<1, 42, 1>>

----------------------------------------------------------------------------
(* Claims about is_def_fn *)

\* is_def_fn was given a name and a number of parameters.
IsDefFnOfNameAndNumber ==
    /\ \/ last.op = "is_def_fn" /\ last.arg[1].type = "string"
       \/ last.op = "exec_fn_call" /\ last.arg[1].type \in {"string", "FnPtr"}
    /\ last.arg[2].type = "i64"

\* C23: is_def_fn(name, n) is false, with no function looked up, for every
\* n < 0 and every n > MAX_USIZE_INT, and for n from 0 to MAX_USIZE_INT it
\* is whether a script function of that name with exactly n parameters
\* exists; in the function-call form and in the form reached through
\* exec_fn_call.
C23_IsDefFn ==
    IsDefFnOfNameAndNumber =>
        LET fn_name == last.arg[1].s
            n == last.arg[2].n
        IN  /\ ~panic
            /\ last.result.ok
            /\ (n < 0 \/ n > MAX_USIZE_INT) =>
                    ~last.result.val.is_def /\ ~last.result.val.looked_up
            /\ (n >= 0 /\ n <= MAX_USIZE_INT) =>
                    last.result.val.is_def = (<<fn_name, n>> \in engine)

\* The function-call form alone, given a string and an integer, answers as
\* C23 says.
IsDefFnKeywordAnswers ==
    (last.op = "is_def_fn" /\ last.arg[1].type = "string"
     /\ last.arg[2].type = "i64") =>
        LET fn_name == last.arg[1].s
            n == last.arg[2].n
        IN  /\ last.result.ok
            /\ (n < 0 \/ n > MAX_USIZE_INT) =>
                    ~last.result.val.is_def /\ ~last.result.val.looked_up
            /\ (n >= 0 /\ n <= MAX_USIZE_INT) =>
                    last.result.val.is_def = (<<fn_name, n>> \in engine)

----------------------------------------------------------------------------
(* Claims about eval *)

\* An eval(s) whose argument gave a string has returned.
EvalReturned ==
    /\ returned.n > 0
    /\ returned.call.path = "eval"
    /\ returned.call.fn # "not_a_string"

C25_AlwaysSearchScope ==
    EvalReturned =>
        LET before == returned.call.before
            after == returned.after
            changed == \/ after.scope_len # before.scope_len
                       \/ after.num_imports # before.num_imports
        IN  after.always_search_scope
                = (before.always_search_scope \/ changed)

\* An eval that failed after its text had imported a module, the scope being
\* as long as before, has set the flag.
C25_Witness ==
    /\ EvalReturned
    /\ ~returned.result.ok
    /\ returned.after.scope_len = returned.call.before.scope_len
    /\ returned.after.num_imports > returned.call.before.num_imports
    /\ ~returned.call.before.always_search_scope
    /\ returned.after.always_search_scope

----------------------------------------------------------------------------
(* Claims about the evaluation of the arguments *)

\* The arguments evaluated by the last call are a prefix of order, all of
\* them successful but the last when the call is not dispatched, and the
\* whole of order when it is.
EvaluatedAlong(order) ==
    LET done == last.result.evaluated
    IN  /\ Len(done) <= Len(order)
        /\ done = SubSeq(order, 1, Len(done))
        /\ \A i \in 1..(Len(done) - 1) : last.arg[done[i]].ok
        /\ IF last.result.dispatched
           THEN done = order /\ \A i \in 1..Len(done) : last.arg[done[i]].ok
           ELSE done # << >> /\ ~last.arg[done[Len(done)]].ok

\* The order the claim gives for the arguments from index first on: left to
\* right, but the first one last when it is a variable and nothing is
\* curried.
ClaimedOrder(first, is_var, curry_len) ==
    IF first <= Len(last.arg) /\ is_var /\ curry_len = 0
    THEN Indexes(first + 1, Len(last.arg)) \o <<first>>
    ELSE Indexes(first, Len(last.arg))

\* C26: the argument expressions of a function call are evaluated strictly
\* left to right and all of them before the dispatch, except that when the
\* first argument is a plain variable access and nothing is curried the
\* remaining arguments are evaluated left to right first and the first
\* argument is looked up last; an error in an argument stops the call before
\* any later argument is evaluated and before the dispatch.
C26_ArgsLeftToRight ==
    last.op \in {"call", "qualified"} =>
        EvaluatedAlong(
            ClaimedOrder(1, last.arg # << >>
                            /\ is_variable_access(last.arg[1],
                                                  last.op = "qualified"),
                         0))

\* C26 as the code has it: the exception is made only by a call that does
\* not capture a non-empty parent scope; a namespace-qualified variable
\* counts as a variable in an unqualified call and not in a qualified one;
\* call(ptr, ..) evaluates the pointer first and treats the arguments after
\* it in the same way, with the pointer's curried values.
C26_ArgsOrder ==
    /\ last.op = "call" =>
        EvaluatedAlong(
            IF last.before[2] THEN Indexes(1, Len(last.arg))
            ELSE ClaimedOrder(1, last.arg # << >>
                                 /\ last.arg[1].kind \in {"var", "qualified_var"},
                              0))
    /\ last.op = "qualified" =>
        EvaluatedAlong(ClaimedOrder(1, last.arg # << >>
                                       /\ last.arg[1].kind = "var", 0))
    /\ last.op = "call_ptr" =>
        EvaluatedAlong(
            <<1>> \o (IF last.before[2] THEN Indexes(2, Len(last.arg))
                      ELSE ClaimedOrder(2, Len(last.arg) >= 2
                                           /\ last.arg[2].kind
                                                \in {"var", "qualified_var"},
                                        last.before[1])))

\* A call f!(x, a, b) that captures a non-empty scope has evaluated x, then
\* a, then b, and has been dispatched.
C26_Witness ==
    /\ last.op = "call" /\ last.before[2]
    /\ Len(last.arg) = 3 /\ last.arg[1].kind = "var"
    /\ last.result.evaluated = <<1, 2, 3>>
    /\ last.result.dispatched

----------------------------------------------------------------------------
(* Claims about qualified calls *)

\* The hashes a qualified call looks up, in the order the claim gives: the
\* base hash, the hash typed with the argument types, then the wildcard
\* permutations by increasing bitmask.
ClaimedProbes(hash, types) ==
    <<hash, calc_fn_hash_full(hash, types)>>
    \o (IF types = << >> THEN << >>
        ELSE [b \in 1..(Pow2(Min(Len(types), MAX_DYNAMIC_PARAMETERS)) - 1)
                |-> calc_fn_hash_full(hash, PermutedTypes(types, b))])

----------------------------------------------------------------------------
(* Claims about the argument slots of the raw calls *)

\* C28: when call_fn_raw (and FnPtr::call_raw) returns, every argument slot
\* the caller passed, the `this` value aside, holds the unit value,
\* whatever the callee does.
C28_ArgsConsumed ==
    HostReturned =>
        \A i \in DOMAIN returned.call.slots : returned.call.slots[i] = UNIT

\* The slots are unit after every call that has reached the body of the
\* script function.
ArgsConsumedByBody ==
    (HostReturned /\ returned.call.phase = "body") =>
        \A i \in DOMAIN returned.call.slots : returned.call.slots[i] = UNIT

----------------------------------------------------------------------------
(* print and debug: the end of exec_native_fn_call *)

MaxPrints == 2

KEYWORD_PRINT == "print"
KEYWORD_DEBUG == "debug"

\* The values a native function returns here: strings, an integer, ().
DynUnit == Dyn("()", "", 0)
PrintValues == {Dyn("string", "", 0), Dyn("string", "hi", 0), Dyn("i64", "", 1), DynUnit}

\* Dynamic::into_immutable_string: the string, or the name of the type.
into_immutable_string(v) == IF v.type = "string" THEN Ok(v.s) ELSE Err(v.type)

\* One call of a callback of the engine: Engine::print with the text,
\* Engine::debug with the text, the source and the position.
CallbackCall(callback, args) == [args |-> args, callback |-> callback]

\* The outcome of exec_native_fn_call: the result with the method flag, and
\* the calls of the callbacks so far.
NativeCallOutcome(result, flag, log) == [is_method |-> flag, result |-> result, log |-> log]

\* The match on the name is taken for debug as it is for every other name.
PostProcessPrintOnly(name, result, flag, source, pos, log) ==
    IF name = KEYWORD_PRINT
    THEN LET text == into_immutable_string(result)
         IN  IF ~text.ok
             THEN NativeCallOutcome(ErrMismatchOutputType("string", text.err),
                                    FALSE, log)
             ELSE NativeCallOutcome(
                    Ok(DynUnit), FALSE,
                    Append(log, CallbackCall("print", <<text.val>>)))
    ELSE NativeCallOutcome(Ok(result), flag, log)

\* exec_native_fn_call, the match on the name of the function called.
PostProcess(name, result, flag, source, pos, log) ==
    CASE name = KEYWORD_PRINT ->
            LET text == into_immutable_string(result)
            IN  IF ~text.ok
                THEN NativeCallOutcome(
                        ErrMismatchOutputType("string", text.err), FALSE, log)
                ELSE NativeCallOutcome(
                        Ok(DynUnit), FALSE,
                        Append(log, CallbackCall("print", <<text.val>>)))
      [] name = KEYWORD_DEBUG ->
            LET text == into_immutable_string(result)
            IN  IF ~text.ok
                THEN NativeCallOutcome(
                        ErrMismatchOutputType("string", text.err), FALSE, log)
                ELSE NativeCallOutcome(
                        Ok(DynUnit), FALSE,
                        Append(log, CallbackCall("debug",
                                                 <<text.val, source, pos>>)))
      [] OTHER -> NativeCallOutcome(Ok(result), flag, log)

\* exec_native_fn_call from the return of the function on: the function's
\* error, check_return_value, check_data_size of the &mut argument, then the
\* match on the name.
NativeCallEnd(name, func, ret, check, is_ref_mut, nargs, g, pos, log) ==
    IF ~ret.ok THEN NativeCallOutcome(ret, FALSE, log)
    ELSE IF check = "return_too_large"
            \/ (check = "arg_too_large" /\ is_ref_mut /\ nargs > 0)
    THEN NativeCallOutcome(Err("ErrorDataTooLarge"), FALSE, log)
    ELSE PostProcess(name, ret.val, is_method(func), g.source, pos, log)

\* The functions the call resolves to: a pure native function, a native
\* method, a plugin method.
PrintFns ==
    {Callable("native", TRUE, "pure"), Callable("native", FALSE, "method"),
     Callable("plugin", FALSE, "plugin")}

PrintNames == {KEYWORD_PRINT, KEYWORD_DEBUG, "f"}
PrintChecks == {"ok", "return_too_large", "arg_too_large"}

PrintOp(name, func, ret, check, is_ref_mut, pos, out) ==
    [before |-> <<func, check, is_ref_mut>>,
     result |-> [is_method |-> out.is_method, result |-> out.result],
     arg |-> ret, pos |-> pos, op |-> name]

InitPrint ==
    /\ engine = SourceEngine({}, {}, {}, {})
    /\ caches = << >>
    /\ sightings = << >>
    /\ last = [before |-> << >>, result |-> Ok(UNIT), arg |-> << >>,
               pos |-> Position_NONE, op |-> "none"]
    /\ global \in {NewGlobal, [NewGlobal EXCEPT !.source = <<"m">>]}
    /\ scope = << >>
    /\ frames = << >>
    /\ returned = NoReturn
    /\ panic = FALSE

\* The call before has reached a callback.
CallbackReached ==
    /\ last.op \in {KEYWORD_PRINT, KEYWORD_DEBUG}
    /\ last.result.result.ok

\* A call of a native function under the name, the first one or one that
\* follows a call of a callback: sightings is the list of the calls of the
\* engine's callbacks.
NativeFnCall(name) ==
    /\ Len(sightings) < MaxPrints
    /\ last.op = "none" \/ CallbackReached
    /\ \E func \in PrintFns, v \in PrintValues, failed \in BOOLEAN,
          check \in PrintChecks, is_ref_mut \in BOOLEAN, pos \in Positions :
        LET ret == IF failed THEN Err("ErrorRuntime") ELSE Ok(v)
            out == NativeCallEnd(name, func, ret, check, is_ref_mut, 1,
                                 global, pos, sightings)
        IN  /\ last' = PrintOp(name, func, ret, check, is_ref_mut, pos, out)
            /\ sightings' = out.log
    /\ UNCHANGED <<engine, caches, global, scope, frames, returned, panic>>

PrintCall == NativeFnCall(KEYWORD_PRINT)
DebugCall == NativeFnCall(KEYWORD_DEBUG)
OtherCall == NativeFnCall("f")

NextPrint ==
    \/ PrintCall
    \/ DebugCall
    \/ OtherCall

SpecPrint == InitPrint /\ [][NextPrint]_vars

----------------------------------------------------------------------------
(* Claims about print and debug *)

\* The native function has returned a value that has passed the checks.
NativeReturnedValue ==
    /\ last.op \in PrintNames
    /\ last.arg.ok
    /\ last.before[2] # "return_too_large"
    /\ ~(last.before[2] = "arg_too_large" /\ last.before[3])

\* C29: a native function called as print or debug has its return value
\* coerced to a string and handed to the print callback (for debug, to the
\* debug callback with the current source and the position), and the call
\* returns () with the method flag false; a return value that is not a
\* string gives ErrorMismatchOutputType; under any other name the call
\* returns the function's value with the function's is_method flag.
C29_PrintDebug ==
    [][NativeReturnedValue' =>
        LET name == last'.op
            v == last'.arg.val
            out == last'.result
        IN  IF name \in {KEYWORD_PRINT, KEYWORD_DEBUG}
            THEN IF v.type = "string"
                 THEN /\ out.result = Ok(DynUnit) /\ ~out.is_method
                      /\ sightings' =
                            Append(sightings,
                                   CallbackCall(name,
                                        IF name = KEYWORD_PRINT THEN <<v.s>>
                                        ELSE <<v.s, global.source, last'.pos>>))
                 ELSE /\ out.result.err = "ErrorMismatchOutputType"
                      /\ sightings' = sightings
            ELSE /\ out.result = Ok(v)
                 /\ out.is_method = is_method(last'.before[1])
                 /\ sightings' = sightings]_vars

\* debug has been called with a string from a source, after a print.
C29_Witness ==
    /\ NativeReturnedValue
    /\ last.op = KEYWORD_DEBUG
    /\ last.arg.val = Dyn("string", "hi", 0)
    /\ Len(sightings) = 2
    /\ sightings[1].callback = "print"
    /\ sightings[2] = CallbackCall("debug", <<"hi", <<"m">>, last.pos>>)

----------------------------------------------------------------------------
(* The hash functions applied to bounded inputs *)

\* The hashers get_hasher() may be: one for every value Hasher gives to a
\* short input and two for inputs with a namespace path, so that every
\* function below meets a zero.
MaxHashKey == 45
HashKeys ==
    0..MaxHashKey
    \cup {Hasher(QualifiedFnItems(<<"imp">>, "f", 1)),
          Hasher(QualifiedFnItems(<<"imp", "sf">>, "g", 0))}

\* Namespace paths, names, parameter type lists and 64-bit values.
HashModules == {<< >>, <<"imp">>, <<"imp", "sf">>}
HashNames == {"f", "g", "foo"}
HashParams == {<< >>, <<1>>, <<2, 1>>}
HashValues == {0, 1, 2, 3, 41, 42, 43, 65535}

\* The function applied, its inputs, the value of finish() before the
\* match, and the hash returned.
HashOp(op, args, raw, hash) ==
    [before |-> raw, result |-> hash, arg |-> args, pos |-> Position_NONE,
     op |-> op]

\* engine is the key of the hasher.
InitHash ==
    /\ engine \in HashKeys
    /\ caches = << >>
    /\ sightings = << >>
    /\ last = [before |-> 0, result |-> 0, arg |-> << >>,
               pos |-> Position_NONE, op |-> "none"]
    /\ global = NewGlobal
    /\ scope = << >>
    /\ frames = << >>
    /\ returned = NoReturn
    /\ panic = FALSE

CalcQualifiedVarHash ==
    /\ last.op = "none"
    /\ \E modules \in HashModules, name \in HashNames :
        last' = HashOp("calc_qualified_var_hash", <<modules, name>>,
                       AHasher(engine, QualifiedVarItems(modules, name)),
                       calc_qualified_var_hash_with(engine, modules, name))
    /\ UNCHANGED <<engine, caches, sightings, global, scope, frames, returned,
                   panic>>

CalcQualifiedFnHash ==
    /\ last.op = "none"
    /\ \E modules \in HashModules \ {<< >>}, name \in HashNames,
          num \in 0..MaxArgs :
        last' = HashOp("calc_qualified_fn_hash", <<modules, name, num>>,
                       AHasher(engine, QualifiedFnItems(modules, name, num)),
                       calc_qualified_fn_hash_with(engine, modules, name, num))
    /\ UNCHANGED <<engine, caches, sightings, global, scope, frames, returned,
                   panic>>

CalcFnHash ==
    /\ last.op = "none"
    /\ \E name \in HashNames, num \in 0..MaxArgs :
        last' = HashOp("calc_fn_hash", <<name, num>>,
                       AHasher(engine, QualifiedFnItems(<< >>, name, num)),
                       calc_fn_hash_with(engine, name, num))
    /\ UNCHANGED <<engine, caches, sightings, global, scope, frames, returned,
                   panic>>

CalcFnParamsHash ==
    /\ last.op = "none"
    /\ \E params \in HashParams :
        last' = HashOp("calc_fn_params_hash", <<params>>,
                       AHasher(engine, FnParamsItems(params)),
                       calc_fn_params_hash_with(engine, params))
    /\ UNCHANGED <<engine, caches, sightings, global, scope, frames, returned,
                   panic>>

CombineHashes ==
    /\ last.op = "none"
    /\ \E a \in HashValues, b \in HashValues :
        last' = HashOp("combine_hashes", <<a, b>>, Xor(a, b),
                       combine_hashes(a, b))
    /\ UNCHANGED <<engine, caches, sightings, global, scope, frames, returned,
                   panic>>

\* A key of a StraightHashMap is hashed: a new hasher, one write_u64, finish.
StraightHash ==
    /\ last.op = "none"
    /\ \E i \in HashValues :
        last' = HashOp("StraightHasher", <<i>>, i,
                       finish(write_u64(build_hasher, i)))
    /\ UNCHANGED <<engine, caches, sightings, global, scope, frames, returned,
                   panic>>

NextHash ==
    \/ CalcQualifiedVarHash
    \/ CalcQualifiedFnHash
    \/ CalcFnHash
    \/ CalcFnParamsHash
    \/ CombineHashes
    \/ StraightHash

SpecHash == InitHash /\ [][NextHash]_vars

----------------------------------------------------------------------------
(* Claims about the hashes *)

HashFunctions ==
    {"calc_qualified_var_hash", "calc_qualified_fn_hash", "calc_fn_hash",
     "calc_fn_params_hash", "combine_hashes"}

\* C30: no hash function returns zero: the four calc functions and
\* combine_hashes return 42 where the hasher (the XOR) gives zero and its
\* value otherwise, so combine_hashes(a, a) is 42, and StraightHasher
\* returns 42 for 0 and its input for every other value.
C30_NoZeroHash ==
    /\ last.op # "none" => last.result # 0
    /\ last.op \in HashFunctions =>
            last.result = (IF last.before = 0 THEN 42 ELSE last.before)
    /\ (last.op = "combine_hashes" /\ last.arg[1] = last.arg[2]) =>
            last.result = 42
    /\ last.op = "StraightHasher" =>
            last.result = (IF last.arg[1] = 0 THEN 42 ELSE last.arg[1])

\* A hasher whose value is zero for the path, the name and the number given
\* to calc_qualified_fn_hash.
C30_Witness ==
    /\ last.op = "calc_qualified_fn_hash"
    /\ last.before = 0
    /\ last.result = ALT_ZERO_HASH

----------------------------------------------------------------------------
(* Compiling under a limit of expression depth *)

\* Tallest expression compiled.
MaxExprHeight == 4
\* Largest limit given to set_max_expr_depths.
MaxExprLimit == 5
\* The limits of a new engine, for global code and for function bodies.
MAX_EXPR_DEPTH == 3
MAX_FUNCTION_EXPR_DEPTH == 2

\* Expressions: a literal, ( e ), e + 1 and 1 + e.
Lit == [kind |-> "lit", sub |-> << >>]
Paren(e) == [kind |-> "paren", sub |-> <<e>>]
Bin(l, r) == [kind |-> "bin", sub |-> <<l, r>>]

RECURSIVE ExprsOfHeight(_)
ExprsOfHeight(h) ==
    IF h <= 1 THEN {Lit}
    ELSE LET sub == ExprsOfHeight(h - 1)
         IN  {Lit} \cup {Paren(e) : e \in sub}
             \cup {Bin(e, Lit) : e \in sub} \cup {Bin(Lit, e) : e \in sub}

\* A source: one expression, at the top level or as the body of a function.
Sources == [in_function : BOOLEAN, expr : ExprsOfHeight(MaxExprHeight)]

\* The nesting depth of an expression.
RECURSIVE ExprDepth(_)
ExprDepth(e) ==
    CASE e.kind = "lit" -> 1
      [] e.kind = "paren" -> 1 + ExprDepth(e.sub[1])
      [] OTHER -> 1 + Max(ExprDepth(e.sub[1]), ExprDepth(e.sub[2]))

\* The parser stops only at a level above the limit plus one.
RECURSIVE parse_expr_lenient(_, _, _)
parse_expr_lenient(e, level, limit) ==
    IF level > limit + 1 THEN Err("ExprTooDeep")
    ELSE CASE e.kind = "lit" -> Ok(UNIT)
           [] e.kind = "paren" -> parse_expr_lenient(e.sub[1], level + 1, limit)
           [] OTHER ->
                LET lhs == parse_expr_lenient(e.sub[1], level + 1, limit)
                IN  IF ~lhs.ok THEN lhs
                    ELSE parse_expr_lenient(e.sub[2], level + 1, limit)

\* The parser descends into an expression one level at a time and stops at
\* the first level above the limit.
RECURSIVE parse_expr(_, _, _)
parse_expr(e, level, limit) ==
    IF level > limit THEN Err("ExprTooDeep")
    ELSE CASE e.kind = "lit" -> Ok(UNIT)
           [] e.kind = "paren" -> parse_expr(e.sub[1], level + 1, limit)
           [] OTHER ->
                LET lhs == parse_expr(e.sub[1], level + 1, limit)
                IN  IF ~lhs.ok THEN lhs
                    ELSE parse_expr(e.sub[2], level + 1, limit)

\* The limit that applies to a source.
ExprLimit(limits, source) ==
    IF source.in_function THEN limits.max_function_expr_depth
    ELSE limits.max_expr_depth

\* Engine::compile.
compile(limits, source) == parse_expr(source.expr, 1, ExprLimit(limits, source))

Limits(max_expr_depth, max_function_expr_depth) ==
    [max_expr_depth |-> max_expr_depth,
     max_function_expr_depth |-> max_function_expr_depth]

\* engine holds the limits of Engine::new().
InitCompile ==
    /\ engine = Limits(MAX_EXPR_DEPTH, MAX_FUNCTION_EXPR_DEPTH)
    /\ caches = << >>
    /\ sightings = << >>
    /\ last = [before |-> << >>, result |-> Ok(UNIT), arg |-> << >>,
               pos |-> Position_NONE, op |-> "none"]
    /\ global = NewGlobal
    /\ scope = << >>
    /\ frames = << >>
    /\ returned = NoReturn
    /\ panic = FALSE

\* Engine::set_max_expr_depths.
SetMaxExprDepths ==
    /\ last.op = "none"
    /\ \E a \in 1..MaxExprLimit, b \in 1..MaxExprLimit : engine' = Limits(a, b)
    /\ UNCHANGED <<caches, sightings, last, global, scope, frames, returned,
                   panic>>

Compile ==
    /\ last.op = "none"
    /\ \E source \in Sources :
        last' = [before |-> engine, result |-> compile(engine, source),
                 arg |-> source, pos |-> Position_NONE, op |-> "compile"]
    /\ UNCHANGED <<engine, caches, sightings, global, scope, frames, returned,
                   panic>>

NextCompile ==
    \/ SetMaxExprDepths
    \/ Compile

SpecCompile == InitCompile /\ [][NextCompile]_vars

----------------------------------------------------------------------------
(* Claims about compiling *)

----------------------------------------------------------------------------
(* Claims about the script branch of exec_fn_call *)

\* The library of the call site or a global module defines a script
\* function under the name with n parameters.
ScriptFnDefined(e, name, n) ==
    \E i \in 1..Len(e.lib \o e.global_modules) :
        LET fns == (e.lib \o e.global_modules)[i].fns
        IN  /\ calc_fn_hash(name, n) \in DOMAIN fns
            /\ is_script(fns[calc_fn_hash(name, n)])

\* The arguments a script function gets: the object of a method call is its
\* `this`.
ScriptArgCount(call) ==
    IF call.is_method_call THEN call.nargs - 1 ELSE call.nargs

\* A call that exec_fn_call dispatches: its hashes hold a script hash and
\* no argument is locked.
Dispatched(call, result) ==
    /\ call.path = "exec_fn_call"
    /\ ~call.native_only
    /\ result.err # "ErrorDataRace"

\* The call went to the script function, whose body has run or is empty,
\* and to no native function.
WentToScript(call, result) ==
    /\ call.kind \in {"script", ""}
    /\ result.err # "ErrorFunctionNotFound"
    /\ call.kind = "" => result = Ok(UNIT) /\ ~call.invoked

\* C32: a call of exec_fn_call whose hashes are not native-only goes to the
\* script function of its name and argument count that the call-site
\* library or a global module defines, whatever native overloads of the
\* name exist, and no native function is resolved or invoked; a native
\* function is tried only when there is no such script function.
C32_ScriptFirst ==
    /\ (returned.n > 0 /\ Dispatched(returned.call, returned.result)) =>
            IF ScriptFnDefined(engine, returned.call.name,
                               ScriptArgCount(returned.call))
            THEN WentToScript(returned.call, returned.result)
            ELSE returned.call.kind # "script"
    /\ \A i \in 1..Len(frames) :
            Dispatched(frames[i], Ok(UNIT)) =>
                (frames[i].kind = "script"
                    <=> ScriptFnDefined(engine, frames[i].name,
                                        ScriptArgCount(frames[i])))

\* f(1) has run the script function f(x) although a native f(int) is
\* registered.
C32_Witness ==
    /\ returned.n > 0 /\ Dispatched(returned.call, returned.result)
    /\ returned.call.name = "f" /\ returned.call.fn = "f/1"
    /\ returned.call.invoked
    /\ FindFn(engine.global_modules,
              calc_fn_hash_full(calc_fn_hash("f", 1), <<1>>)) # << >>

\* p(1) has run the script function of the package, not the plugin.
PackageScriptRan == returned.n > 0 /\ returned.call.fn = "pkg::p/1"

\* The frames of a script function entered through exec_fn_call with
\* is_ref_mut and a non-empty argument list.
ScriptByRef(frame) ==
    /\ frame.path = "exec_fn_call" /\ frame.kind = "script"
    /\ frame.is_ref_mut /\ frame.nargs > 0

\* C33: a script function called in function-call style with is_ref_mut
\* gets a clone in slot 0, and the caller's first-argument variable holds
\* after the call what it held before it, whatever the body assigned to its
\* first parameter; called as a method, slot 0 is bound to `this` without a
\* clone and what the body writes to `this` is the caller's variable.
C33_ScriptFirstArg ==
    /\ \A i \in 2..Len(frames) :
            ScriptByRef(frames[i]) =>
                IF frames[i].is_method_call
                THEN /\ frames[i].this /\ frames[i].arg0 = "ref"
                     /\ ~frames[i].arg_guard
                     /\ frames[i].wrote <=>
                            frames[i - 1].var # frames[i].before.var
                ELSE /\ ~frames[i].this /\ frames[i].arg0 = "copy"
                     /\ frames[i - 1].var = frames[i].before.var
    /\ (returned.n > 0 /\ ScriptByRef(returned.call)) =>
            IF returned.call.is_method_call
            THEN returned.call.wrote <=>
                    returned.after.var # returned.call.before.var
            ELSE returned.after.var = returned.call.before.var

\* f(x) has returned after its body assigned to its parameter.
C33_Witness ==
    /\ returned.n > 0 /\ ScriptByRef(returned.call)
    /\ ~returned.call.is_method_call
    /\ returned.call.wrote /\ returned.call.n # returned.call.before.var
    /\ returned.after.var = returned.call.before.var

\* x.f(1) has returned after its body wrote to `this`.
MethodWroteThis ==
    /\ returned.n > 0 /\ ScriptByRef(returned.call)
    /\ returned.call.is_method_call /\ returned.call.wrote
    /\ returned.after.var # returned.call.before.var

----------------------------------------------------------------------------
(* Claims about operator calls *)

\* An operator call made under fast operators.
FastOperator(call) == engine.fast_operators /\ call.name = "+"

\* Both operands were evaluated, the left one first.
BothEvaluated(call) ==
    /\ Len(call.operands) = 2
    /\ call.operands[1][1] = 1 /\ call.operands[2][1] = 2

\* The built-in table has an entry for the types of the operands.
BuiltinExists(call) ==
    get_builtin_binary_op_fn("Plus", call.operands[1][2], call.operands[2][2])
        # << >>

\* What holds of an operator call made under fast operators, in progress or
\* over.
FastOperatorCall(call) ==
    /\ call.operands \in {Operands(types, n) : types \in OperatorOperands,
                                              n \in 1..2}
    /\ call.path # "operator" =>
            /\ BothEvaluated(call)
            /\ call.arg0 = "value" /\ ~call.is_ref_mut
            /\ IF BuiltinExists(call)
               THEN /\ call.path = "builtin" /\ call.kind = "builtin"
                    /\ call.fn = "builtin +"
               ELSE call.path = "exec_fn_call"

\* The step enters a built-in operator called under fast operators.
FastBuiltinEntered ==
    /\ Len(frames') = Len(frames) + 1
    /\ frames'[Len(frames')].path = "builtin"

\* C34: under fast operators a call with an operator token and two
\* arguments evaluates both by value, the left one first; when the built-in
\* table has an entry for their types the built-in is called at once,
\* whatever function is registered under the name, with the resolution
\* caches left as they are; when it has none the call goes through
\* exec_fn_call with the evaluated operands and is_ref_mut false.
C34_FastOperators ==
    [][/\ \A i \in 1..Len(frames') :
            FastOperator(frames'[i]) => FastOperatorCall(frames'[i])
       /\ (returned'.n > 0 /\ FastOperator(returned'.call)) =>
            /\ FastOperatorCall(returned'.call)
            /\ returned'.call.path = "operator" =>
                    /\ ~returned'.result.ok
                    /\ ~returned'.call.invoked
       /\ FastBuiltinEntered => caches' = caches]_vars

\* The built-in + of two strings has returned although +(string, string)
\* is registered, and no resolution cache was ever created.
C34_Witness ==
    /\ returned.n > 0 /\ FastOperator(returned.call)
    /\ returned.call.fn = "builtin +"
    /\ returned.call.operands = Operands(<<2, 2>>, 2)
    /\ returned.result.ok
    /\ caches = << >>

\* int + string has gone through exec_fn_call under fast operators.
FastOperatorDispatched ==
    /\ returned.n > 0 /\ FastOperator(returned.call)
    /\ returned.call.path = "exec_fn_call"

\* The registered +(string, string) has run, without fast operators.
RegisteredOperatorRan ==
    returned.n > 0 /\ returned.call.fn = "+(string,string)"

----------------------------------------------------------------------------
(* Claims about the built-in operators in resolve_fn *)

\* The last call of resolve_fn returned a built-in operator.
BuiltinReturned ==
    last.n > 0 /\ last.ret # << >> /\ last.ret[1].func.kind = "builtin"

\* The built-in that the tables hold for the last call: none without a
\* token or with an argument count other than two.
BuiltinOfLastCall ==
    IF last.args = << >> \/ last.op_token = << >> THEN << >>
    ELSE IF Len(last.args[1]) # 2 THEN << >>
    ELSE BuiltinLookup(last.op_token, last.args[1])

\* C35: resolve_fn returns a built-in operator only to a call with exactly
\* two arguments and an operator token, the one of the op-assignment table
\* for an op-assignment token and of the binary table otherwise, and only
\* after the exact hash and every wildcard permutation were found in no
\* source; a call with no token or another argument count gets no built-in.
C35_BuiltinsLast ==
    BuiltinReturned =>
        /\ last.ret = BuiltinOfLastCall
        /\ \A i \in 1..Len(last.probes) :
                SearchSources(engine, last.probes[i], last.args) = << >>

\* The same of the calls that did not end on an entry of the cache.
BuiltinsLastOnMiss ==
    (BuiltinReturned /\ ~last.hit) =>
        /\ last.ret = BuiltinOfLastCall
        /\ last.probes # << >>
        /\ \A i \in 1..Len(last.probes) :
                SearchSources(engine, last.probes[i], last.args) = << >>

----------------------------------------------------------------------------
(* Claims about a function call whose first argument is a variable *)

\* The frames of the calls f(x, ...) made on a variable with no curried
\* argument.
OnVariable(frame) ==
    frame.path = "exec_fn_call" /\ frame.first_var # << >>

\* The variable is passed as the &mut first argument only if it is neither
\* shared nor temporary, and a shared or temporary one is passed by value.
FirstArgOfVariable(frame) ==
    /\ frame.is_ref_mut =>
            ~frame.first_var[1].shared /\ ~frame.first_var[1].temp
    /\ (frame.first_var[1].shared \/ frame.first_var[1].temp) =>
            ~frame.is_ref_mut /\ frame.arg0 = "value"

\* C36: in a function call on a variable with no curried argument the
\* variable's slot is passed as a mutable reference (is_ref_mut) only when
\* the variable is neither shared nor a temporary value; a shared or
\* temporary one is passed as a copy by value without is_ref_mut.
C36_FirstArgByRef ==
    /\ \A i \in 2..Len(frames) :
            OnVariable(frames[i]) => FirstArgOfVariable(frames[i])
    /\ (returned.n > 0 /\ OnVariable(returned.call)) =>
            FirstArgOfVariable(returned.call)

\* A call on a shared variable returned after the callee wrote to its copy.
C36_Witness ==
    /\ returned.n > 0 /\ OnVariable(returned.call)
    /\ returned.call.first_var[1].shared
    /\ ~returned.call.first_var[1].read_only
    /\ returned.call.wrote /\ returned.result.ok

\* A call on a plain variable was made by reference and wrote to the slot.
PlainVariableByRef ==
    /\ returned.n > 0 /\ OnVariable(returned.call)
    /\ returned.call.first_var[1] = Variable(FALSE, FALSE, FALSE)
    /\ returned.call.is_ref_mut /\ returned.call.wrote
    /\ returned.after.var # returned.call.before.var

\* The frames of the calls f(c, ...) made on a constant.
OnConstant(frame) ==
    OnVariable(frame) /\ frame.first_var[1].read_only

\* C37: a function call whose first argument is a constant gives the
\* function an owned copy by value: whatever the callee is and writes, the
\* constant has after the call the value it had before, and the call does
\* not fail with ErrorNonPureMethodCallOnConstant.
C37_ConstantFirstArg ==
    /\ \A i \in 2..Len(frames) :
            OnConstant(frames[i]) =>
                /\ frames[i].arg0 = "value" /\ ~frames[i].is_ref_mut
                /\ frames[i - 1].var = frames[i].before.var
    /\ (returned.n > 0 /\ OnConstant(returned.call)) =>
            /\ returned.after.var = returned.call.before.var
            /\ returned.result.err # "ErrorNonPureMethodCallOnConstant"

\* The plugin method r was called on a constant, wrote to its first
\* argument and returned a value.
C37_Witness ==
    /\ returned.n > 0 /\ OnConstant(returned.call)
    /\ returned.call.kind = "plugin" /\ ~returned.call.pure
    /\ returned.call.wrote /\ returned.result.ok

----------------------------------------------------------------------------
(* Claims about the first argument of a qualified call *)

\* The frames of the qualified calls whose first argument was borrowed from
\* a variable.
QualifiedBorrowed(frame) ==
    frame.path = "qualified" /\ frame.is_ref_mut /\ frame.nargs > 0

\* The call resolved to a function that is not a method.
ResolvedNotMethod(frame) ==
    frame.kind = "script" \/ (frame.kind \in {"native", "plugin"} /\ frame.pure)

\* The call resolved to a method or to nothing.
MethodOrNotFound(frame) ==
    frame.kind = "" \/ (frame.kind \in {"native", "plugin"} /\ ~frame.pure)

\* C38: in a qualified call whose first argument was borrowed from a
\* variable, a function that is not a method (pure native, pure plugin or
\* script) gets a clone in the first slot, and the caller's variable has
\* after the call the value it had before; the variable's own slot is passed
\* only to a method or when no function was found.
C38_QualifiedFirstArg ==
    /\ \A i \in 2..Len(frames) :
            QualifiedBorrowed(frames[i]) =>
                /\ ResolvedNotMethod(frames[i]) =>
                        /\ frames[i].arg0 # "ref"
                        /\ frames[i - 1].var = frames[i].before.var
                /\ frames[i].arg0 = "ref" => MethodOrNotFound(frames[i])
    /\ (returned.n > 0 /\ QualifiedBorrowed(returned.call)) =>
            /\ ResolvedNotMethod(returned.call) =>
                    /\ returned.call.arg0 # "ref"
                    /\ returned.after.var = returned.call.before.var
            /\ returned.call.arg0 = "ref" => MethodOrNotFound(returned.call)

\* imp::g(x) wrote to its first argument and returned.
C38_Witness ==
    /\ returned.n > 0 /\ QualifiedBorrowed(returned.call)
    /\ returned.call.kind = "native" /\ returned.call.pure
    /\ returned.call.wrote

\* imp::sf(x), a script function, returned.
QualifiedScriptReturned ==
    /\ returned.n > 0 /\ QualifiedBorrowed(returned.call)
    /\ returned.call.kind = "script" /\ returned.result.ok

\* imp::p(x), a method, wrote to the caller's variable.
QualifiedMethodWrote ==
    /\ returned.n > 0 /\ QualifiedBorrowed(returned.call)
    /\ returned.call.kind = "plugin" /\ returned.call.arg0 = "ref"
    /\ returned.after.var # returned.call.before.var

----------------------------------------------------------------------------
(* Claims about the stack of resolution caches *)

\* The three operations on the stack as it is now: fn_resolution_cache_mut
\* pushes one empty cache on an empty stack and changes nothing otherwise,
\* push_fn_resolution_cache adds one empty cache on top, and
\* rewind_fn_resolution_caches(n) leaves the first min(n, length) caches.
StackOperations ==
    /\ fn_resolution_cache_mut(caches) =
            IF caches = << >> THEN <<EmptyCache>> ELSE caches
    /\ Len(push_fn_resolution_cache(caches)) = Len(caches) + 1
    /\ push_fn_resolution_cache(caches)[Len(caches) + 1] = EmptyCache
    /\ \A j \in 1..Len(caches) : push_fn_resolution_cache(caches)[j] = caches[j]
    /\ \A n \in 0..(MaxCacheStack + 1) :
            /\ Len(rewind_fn_resolution_caches(caches, n)) =
                    IF n < Len(caches) THEN n ELSE Len(caches)
            /\ \A j \in 1..Len(rewind_fn_resolution_caches(caches, n)) :
                    rewind_fn_resolution_caches(caches, n)[j] = caches[j]

\* One step of the stack: a resolution pushes a cache only on an empty stack
\* and changes the top cache alone; a caller's rewind leaves the length the
\* caller noted and, below it, the caches that were there before its push.
StackStep ==
    /\ last'.n # last.n =>
            /\ Len(caches') = (IF caches = << >> THEN 1 ELSE Len(caches))
            /\ \A j \in 1..(Len(caches) - 1) : caches'[j] = caches[j]
    /\ Len(frames') > Len(frames) =>
            caches' = Append(caches, EmptyCache)
    /\ Len(frames') < Len(frames) =>
            /\ Len(caches') = returned'.call.orig_fn_resolution_caches_len
            /\ caches' = returned'.call.below

----------------------------------------------------------------------------
(* Claims about the keywords in exec_fn_call *)

\* A call that reached exec_fn_call with native-only hashes and went past
\* the check of the arguments.
NativeOnlyCall(call) ==
    call.path = "exec_fn_call" /\ call.native_only /\ call.level_guard

\* The names and argument counts that the claim lists for the error.
NoMethodCall(call) ==
    \/ call.name \in {"Fn", "eval", "is_def_var", "is_shared"} /\ call.nargs = 1
    \/ call.name \in {"call", "curry"} /\ call.nargs > 0

\* C40: under native-only hashes Fn, eval, is_def_var and is_shared with one
\* argument and call and curry with at least one return ErrorRuntime, and
\* type_of with one argument returns the name of the argument's type, all
\* without resolving or invoking a function; the same names with any other
\* number of arguments go on to the normal resolution.
C40_NativeOnlyKeywords ==
    /\ \A i \in 2..Len(frames) :
            NativeOnlyCall(frames[i]) =>
                ~NoMethodCall(frames[i])
                /\ ~(frames[i].name = "type_of" /\ frames[i].nargs = 1)
    /\ (returned.n > 0 /\ NativeOnlyCall(returned.call)) =>
            /\ NoMethodCall(returned.call) =>
                    /\ returned.result = Err("ErrorRuntime")
                    /\ ~returned.call.resolved /\ ~returned.call.invoked
            /\ (returned.call.name = "type_of" /\ returned.call.nargs = 1) =>
                    /\ returned.result.ok
                    /\ returned.result.val \in {"i64", "string"}
                    /\ ~returned.call.resolved /\ ~returned.call.invoked
            /\ (~NoMethodCall(returned.call)
                /\ ~(returned.call.name = "type_of" /\ returned.call.nargs = 1)) =>
                    \/ returned.call.resolved
                    \/ returned.result = Err("ErrorTooManyOperations")

\* x.curry(1, 1) was answered with the error.
C40_Witness ==
    /\ returned.n > 0 /\ NativeOnlyCall(returned.call)
    /\ returned.call.name = "curry" /\ returned.call.nargs = 3
    /\ returned.result = Err("ErrorRuntime")

\* x.type_of() of a string was answered with its type name.
TypeOfAnswered ==
    /\ returned.n > 0 /\ NativeOnlyCall(returned.call)
    /\ returned.call.name = "type_of" /\ returned.call.nargs = 1
    /\ returned.result = Ok("string")

\* x.is_shared(1), with one argument too many, went to the resolution.
KeywordResolved ==
    /\ returned.n > 0 /\ NativeOnlyCall(returned.call)
    /\ returned.call.name = "is_shared" /\ returned.call.nargs = 2
    /\ returned.call.resolved
    /\ returned.result = Err("ErrorFunctionNotFound")

====
